---- MODULE Spec2Model ----
(***************************************************************************)
(* Watch Together background session coordinator (src/src/popup/popup.ts,  *)
(* lines 728-2163): the connection manager, the pending-message queue, the *)
(* room-operation lock and the message router, as a state machine.         *)
(*                                                                         *)
(* Every handler of the source is an operator from a "world" record (the   *)
(* session, the sockets, the timers, the lock, the messages on the wire)   *)
(* to the world it leaves behind; an action applies one handler to the     *)
(* current world.  Handlers run to completion (one JavaScript task each).  *)
(* Time is a clock of TickMs steps; a timer holds the milliseconds left    *)
(* until it fires and fires before the clock moves on.                     *)
(***************************************************************************)
EXTENDS Integers, Sequences, FiniteSets, TLC

VARIABLES
    s,        \* session: SessionState (popup.ts 732-771)
    socks,    \* every WebSocket created so far, with its timeout timer
    recon,    \* pending reconnect timers: setTimeout(() => connect(), delay)
    ops,      \* closures of lifecycle commands waiting for a connection
    lock,     \* pendingOperation (popup.ts 794)
    wire,     \* messages handed to socket.send and not yet read by the relay
    tasks,    \* promises of the background script still to be resolved
    failed,   \* CONNECTION_STATUS 'failed' notifications forwarded so far
    resp,     \* the latest command and the answer (sendResponse) it got
    closes,   \* observer: unclean closes in a room since a socket last opened
    forwarded, \* what the handler that ran last handed to forwardToAllTabs
    trail,    \* observer: the rooms left and the lifecycle requests the relay read
    used,     \* how much of each modelling budget has been spent
    lim,      \* the modelling budgets of this behaviour
    ctl,      \* the fields of an AdaptiveSyncController (part_002 43-55)
    video,    \* the HTMLVideoElement it drives: playbackRate, currentTime
    seeks,    \* the timers of the smooth seeks started so far
    now,      \* performance.now(), in ms
    call,     \* the latest call of a controller method and what it returned
    script    \* a content script and its player adapter: flags and timers

popupVars ==
    <<s, socks, recon, ops, lock, wire, tasks, failed, resp, closes, forwarded, trail>>
syncVars == <<ctl, video, seeks, now, call>>
vars == <<popupVars, used, lim, syncVars, script>>

----------------------------------------------------------------------------
(* Program constants *)

RECONNECT_DELAY_MS == 3000
MAX_RECONNECT_ATTEMPTS == 5
HEARTBEAT_INTERVAL_MS == 30000
MAX_RECONNECT_DELAY_MS == 30000
CONNECT_TIMEOUT_MS == 10000
OPERATION_TIMEOUT_MS == 10000
AUTO_JOIN_TIMEOUT_MS == 50 * 100
LOCK_STALE_MS == 5000
MAX_PENDING_MESSAGES == 50
CLOSE_NORMAL == 1000
CLOSE_ABNORMAL == 1006

(* Bounds of the model *)

TickMs == 1000          \* granularity of the clock
MaxSockets == 3         \* sockets created in one behaviour
MaxCommands == 3        \* commands from the popup and the content scripts
MaxPlayerEvents == 1    \* distinct player events a content script reports
MaxWire == 3            \* messages on the wire at one time
MaxPushes == 1          \* messages the relay sends unasked
MaxLockSockets == 2     \* sockets of the lock scenario
MaxLockCommands == 2    \* lifecycle commands of the lock scenario
MaxLockTime == 6        \* clock steps of the lock scenario
MaxOutageSockets == 6   \* sockets of the outage scenario
MaxTrafficSockets == 3  \* sockets of the traffic scenario
MaxQueueSockets == 1     \* sockets of the queue-overflow scenario
MaxBurst == 52          \* player events of the queue-overflow scenario
MaxRoomSockets == 2     \* sockets of the room scenario
MaxRoomCommands == 2    \* lifecycle commands of the room scenario
MaxRoomEvents == 2      \* player, navigation and force-sync commands of the room scenario
MaxRoomWire == 2        \* messages on the wire in the room scenario
MaxRoomPushes == 1      \* messages the relay sends unasked in the room scenario
MaxDriftMs == 5100      \* largest drift handed to calculateSyncAction
MaxLatencyCalls == 3    \* calls of the latency scenario
MaxSkewMs == 500        \* how far a remote clock is ahead
MaxLatencyMs == 3000    \* largest raw latency of an event
MaxSpeedCalls == 4      \* calls of the speed scenario
MaxMemberCommands == 2  \* lifecycle commands of the membership scenario
MaxMemberWire == 2      \* messages in flight in the membership scenario
MaxMemberPushes == 2    \* member lists the relay sends unasked
MaxKindSockets == 2     \* sockets of the message-kinds scenario
MaxKindCommands == 3    \* commands of the message-kinds scenario
MaxKindWire == 2        \* messages in flight in the message-kinds scenario
MaxWindowCalls == 23    \* calls of the windows scenario
FreeWindowCalls == 2    \* calls at either end of the windows scenario that take any latency
MaxTimerCalls == 3      \* calls of the reset-timeout scenario
MaxTimerMs == 5000      \* how long the reset-timeout scenario runs
MaxStaleSockets == 1    \* sockets of the stale-lock scenario
MaxStaleCommands == 2   \* lifecycle commands of the stale-lock scenario
MaxStaleTime == 11      \* clock steps of the stale-lock scenario
MaxScriptEvents == 2   \* remote events handed to the content script
MaxScriptMs == 640      \* time of the content-script scenario, in ms
MaxClockCalls == 12     \* calls of calculateLatency of the clock scenario
MaxDisconnectSockets == 3  \* sockets of the disconnect scenario
MaxSeekCalls == 2       \* smooth seeks of the seek scenario

Null == "null"
NoSocket == 0
NoTimer == -1
Rooms == {"ROOM1", "ROOM2"}
LocalId == "user_a"
PeerId == "user_b"

LocalMs == 10 * 1000    \* a local playback position
DateNow == 1000 * 1000  \* Date.now() when a method is called
QUICK_SEEK_MS == 250    \* the duration of the adapters' own smooth seeks

Min(a, b) == IF a < b THEN a ELSE b
Max(a, b) == IF a > b THEN a ELSE b

RECURSIVE Pow2(_)
Pow2(n) == IF n <= 0 THEN 1 ELSE 2 * Pow2(n - 1)

----------------------------------------------------------------------------
(* Messages.  Every client message has the same four fields; a field a     *)
(* message type does not carry is Null.                                    *)

Msg(type, roomId, userId, data) ==
    [type |-> type, roomId |-> roomId, userId |-> userId, data |-> data]

UserInfo(oderId, canControl, isHost) ==
    [oderId |-> oderId, canControl |-> canControl, isHost |-> isHost]

\* sendResponse({success, error}) of command cmd
Response(cmd, success, error) == [cmd |-> cmd, success |-> success, error |-> error]
NoResponse == Response(Null, TRUE, Null)
Ok(cmd) == Response(cmd, TRUE, Null)
Err(cmd, e) == Response(cmd, FALSE, e)

\* A PendingOperation: age stands for Date.now() - timestamp, and seq (the
\* number of the command that made it) tells two operations apart.
Operation(type, roomId, seq) ==
    [type |-> type, age |-> 0, roomId |-> roomId, seq |-> seq]

NoOperation == [type |-> Null, age |-> 0, roomId |-> Null, seq |-> 0]

\* Relay messages: the fields a message type does not carry are Null.
ServerMsg(type, roomId, oderId, isHost, users, code, text) ==
    [type |-> type, roomId |-> roomId, oderId |-> oderId, isHost |-> isHost,
     users |-> users, code |-> code, text |-> text, data |-> Null]

\* A relay message about participant oderId that carries data: the event of
\* SYNC_EVENT, the navigation of NAVIGATE, canControl of PERMISSION_CHANGED
RelayEvent(type, oderId, data) ==
    [ServerMsg(type, Null, oderId, FALSE, <<>>, Null, Null) EXCEPT !.data = data]

----------------------------------------------------------------------------
(* The world the handlers work on *)

World ==
    [s |-> s, socks |-> socks, recon |-> recon, ops |-> ops, lock |-> lock,
     wire |-> wire, tasks |-> tasks, failed |-> failed, resp |-> resp,
     closes |-> closes, forwarded |-> <<>>, trail |-> trail]

\* A variant of ClearRoom that forgets nothing
KeepRoom(w) == w

ClearRoom(w) ==
    [w EXCEPT !.s.roomId = Null, !.s.isHost = FALSE,
              !.s.userCount = 0, !.s.users = <<>>]

RoomCleared(ss) ==
    /\ ss.roomId = Null
    /\ ss.isHost = FALSE
    /\ ss.userCount = 0
    /\ ss.users = <<>>

\* session.socket?.readyState
ReadyState(w) ==
    IF w.s.socket = NoSocket THEN Null ELSE w.socks[w.s.socket].rs

----------------------------------------------------------------------------
(* Pending-message queue (popup.ts 1103-1130) *)

\* A variant of shouldQueueMessage that queues state responses
QueueStateResponses(m) == m.type # "HEARTBEAT"

\* A variant of shouldQueueMessage that queues every message
QueueEverything(m) == TRUE

\* shouldQueueMessage: heartbeats and state responses are never queued
ShouldQueueMessage(m) ==
    ~(m.type = "HEARTBEAT" \/ m.type = "STATE_RESPONSE")

\* A variant of queueMessage that never drops the oldest entry
QueueWithoutLimit(w, m) ==
    LET pm == w.s.pendingMessages
        isDuplicate == \E k \in 1..Len(pm) : pm[k].type = m.type /\ pm[k] = m
    IN [w EXCEPT !.s.pendingMessages = IF isDuplicate THEN pm ELSE Append(pm, m)]

\* queueMessage: push unless an equal message is queued, then cut to the limit
QueueMessage(w, m) ==
    LET pm == w.s.pendingMessages
        isDuplicate == \E k \in 1..Len(pm) : pm[k].type = m.type /\ pm[k] = m
        pushed == IF isDuplicate THEN pm ELSE Append(pm, m)
        kept == IF Len(pushed) > MAX_PENDING_MESSAGES THEN Tail(pushed) ELSE pushed
    IN [w EXCEPT !.s.pendingMessages = kept]

----------------------------------------------------------------------------
(* Connection manager (popup.ts 883-1101) *)

\* A WebSocket: readyState, its connectionTimeout timer and how close() was
\* called on it
NewSocket ==
    [rs |-> "CONNECTING", tmo |-> CONNECT_TIMEOUT_MS, lc |-> "none"]

\* connect: a new socket unless the session's socket is open or connecting.
\* The constructor is given a constant, well-formed URL and does not throw.
Connect(w) ==
    IF ReadyState(w) = "OPEN" \/ ReadyState(w) = "CONNECTING"
    THEN w
    ELSE [w EXCEPT !.socks = Append(@, NewSocket),
                   !.s.socket = Len(w.socks) + 1]

\* socket.close(...) on socket i: an open socket starts the closing
\* handshake, a connecting one is aborted, a closing or closed one is left.
CloseSocket(w, i, how) ==
    IF w.socks[i].rs = "OPEN"
    THEN [w EXCEPT !.socks[i].rs = "CLOSING", !.socks[i].lc = how]
    ELSE IF w.socks[i].rs = "CONNECTING"
    THEN [w EXCEPT !.socks[i].rs = "CLOSING", !.socks[i].lc = "abort"]
    ELSE w

StopHeartbeat(w) == [w EXCEPT !.s.heartbeatInterval = NoTimer]

StartHeartbeat(w) == [w EXCEPT !.s.heartbeatInterval = HEARTBEAT_INTERVAL_MS]

\* The delay before reconnect attempt number `attempt`
ReconnectDelay(attempt) ==
    Min(RECONNECT_DELAY_MS * Pow2(attempt - 1), MAX_RECONNECT_DELAY_MS)

\* setTimeout(() => connect(), delay)
ScheduleReconnect(w, delay) == [w EXCEPT !.recon = Append(@, delay)]

\* sendMessage.  socket.send on an open socket does not throw, so the
\* catch branch of the source (1078-1084) is not taken.
SendMessage(w, m) ==
    IF ReadyState(w) = "OPEN"
    THEN [w EXCEPT !.wire = Append(@, [sock |-> w.s.socket, msg |-> m])]
    ELSE IF w.s.isReconnecting /\ ShouldQueueMessage(m)
    THEN QueueMessage(w, m)
    ELSE IF ~w.s.connected /\ ~w.s.isReconnecting
    THEN LET c == Connect(w)
         IN IF ShouldQueueMessage(m) THEN QueueMessage(c, m) ELSE c
    ELSE w

RECURSIVE SendAll(_, _)
SendAll(w, ms) ==
    IF ms = <<>> THEN w ELSE SendAll(SendMessage(w, Head(ms)), Tail(ms))

\* flushPendingMessages
FlushPendingMessages(w) ==
    IF Len(w.s.pendingMessages) = 0
    THEN w
    ELSE SendAll([w EXCEPT !.s.pendingMessages = <<>>], w.s.pendingMessages)

\* handleConnectionFailure
HandleConnectionFailure(w) ==
    LET w1 == StopHeartbeat([w EXCEPT !.s.connected = FALSE,
                                      !.s.socket = NoSocket])
    IN IF w1.s.roomId # Null /\ w1.s.reconnectAttempts < MAX_RECONNECT_ATTEMPTS
       THEN LET n == w1.s.reconnectAttempts + 1
            IN ScheduleReconnect([w1 EXCEPT !.s.reconnectAttempts = n,
                                            !.s.isReconnecting = TRUE],
                                 ReconnectDelay(n))
       ELSE w1

\* The connectionTimeout callback of socket i (902-908).  It looks at
\* session.socket, which need not be socket i.
ConnectionTimeout(w, i) ==
    LET w1 == [w EXCEPT !.socks[i].tmo = NoTimer]
    IN IF ReadyState(w1) = "CONNECTING"
       THEN HandleConnectionFailure(CloseSocket(w1, w1.s.socket, "none"))
       ELSE w1

\* The rejoin test of onopen (922)
ShouldRejoin(ss) == ss.roomId # Null /\ ss.isReconnecting

\* socket.onopen of socket i (910-935)
OnOpen(w, i) ==
    LET w1 == [w EXCEPT !.socks[i].tmo = NoTimer,
                        !.s.connected = TRUE,
                        !.s.reconnectAttempts = 0,
                        !.s.isReconnecting = FALSE]
        w2 == FlushPendingMessages(w1)
        w3 == IF ShouldRejoin(w2.s)
              THEN SendMessage(w2, Msg("JOIN_ROOM", w2.s.roomId, w2.s.oderId, Null))
              ELSE w2
    IN StartHeartbeat(w3)

\* A variant of the early return of onclose that ignores the close code
OnlyWithoutRoom(code, ss) == ss.roomId = Null

\* Whether onclose gives up on the connection for good
CleanDisconnect(code, ss) == code = CLOSE_NORMAL \/ ss.roomId = Null

\* socket.onclose of socket i with close code `code` (937-993)
OnClose(w, i, code) ==
    LET w1 == StopHeartbeat([w EXCEPT !.socks[i].tmo = NoTimer,
                                      !.s.connected = FALSE,
                                      !.s.socket = NoSocket])
    IN IF CleanDisconnect(code, w1.s)
       THEN w1
       ELSE IF w1.s.reconnectAttempts < MAX_RECONNECT_ATTEMPTS
       THEN LET n == w1.s.reconnectAttempts + 1
            IN ScheduleReconnect([w1 EXCEPT !.s.reconnectAttempts = n,
                                            !.s.isReconnecting = TRUE],
                                 ReconnectDelay(n))
       ELSE ClearRoom([w1 EXCEPT !.s.isReconnecting = FALSE,
                                 !.failed = @ + 1])

\* disconnect (1045-1057)
Disconnect(w) ==
    LET w1 == IF w.s.socket # NoSocket
              THEN [CloseSocket(w, w.s.socket, "clean") EXCEPT !.s.socket = NoSocket]
              ELSE w
    IN StopHeartbeat(ClearRoom([w1 EXCEPT !.s.connected = FALSE]))

----------------------------------------------------------------------------
(* Operation lock (popup.ts 787-817) *)

\* The staleness test of acquireRoomLock (802)
LockIsStale(lk) == lk.age > LOCK_STALE_MS

\* A variant of acquireRoomLock that never replaces a held lock
OnlyWhenFree(lk) == lk.type = Null

\* What acquireRoomLock returns
CanAcquire(lk) == lk.type = Null \/ LockIsStale(lk)

\* acquireRoomLock: the world it leaves
AcquireRoomLock(w, operation) ==
    IF CanAcquire(w.lock) THEN [w EXCEPT !.lock = operation] ELSE w

\* A variant of releaseRoomLock that keeps the lock
KeepRoomLock(w) == w

\* releaseRoomLock
ReleaseRoomLock(w) == [w EXCEPT !.lock = NoOperation]

----------------------------------------------------------------------------
(* Message router: relay -> client (popup.ts 1132-1339) *)

\* requestPlayerState starts by awaiting a tab's answer (1371-1376)
RequestPlayerState(w) == [w EXCEPT !.tasks.stateRequests = @ + 1]

\* The continuation of requestPlayerState once a tab answered (1381-1390)
PlayerStateAnswered(w, success) ==
    LET w1 == [w EXCEPT !.tasks.stateRequests = @ - 1]
    IN IF success /\ w1.s.roomId # Null
       THEN SendMessage(w1, Msg("STATE_RESPONSE", w1.s.roomId, w1.s.oderId, Null))
       ELSE w1

\* What a payload that lacks a member reads as: message.message,
\* message.users and message.userCount are undefined
Missing == "undefined"

NoUsers == <<[undefined |-> TRUE]>>

NoCount == -1

\* message.userCount: the relay's count of the list it sends
CountOf(users) == IF users = NoUsers THEN NoCount ELSE Len(users)

\* message.users.find(u => u.oderId === id): whether there is one, and the first
HasUser(users, id) == \E k \in 1..Len(users) : users[k].oderId = id

FindUser(users, id) ==
    users[CHOOSE k \in 1..Len(users) :
             /\ users[k].oderId = id
             /\ \A j \in 1..(k - 1) : users[j].oderId # id]

\* forwardToAllTabs({type, payload}): every tab and the popup are handed it
ForwardToAllTabs(w, type, payload) ==
    [w EXCEPT !.forwarded = Append(@, [type |-> type, payload |-> payload])]

\* A variant of the origin test that takes no message for the client's own
NeverOwn(w, m) == FALSE

\* message.oderId === session.oderId (1186, 1202)
IsOwn(w, m) == m.oderId = w.s.oderId

\* A variant of the test that looks at the error code only
OnlyByCode(m) == m.code = "ROOM_NOT_FOUND"

\* The test of the ERROR case that clears the session (1311)
IsRoomNotFound(m) == m.code = "ROOM_NOT_FOUND" \/ m.text = "does not exist"

\* handleServerMessage
HandleServerMessage(w, m) ==
    CASE m.type = "ROOM_CREATED" ->
           ReleaseRoomLock([w EXCEPT !.s.oderId = m.oderId,
                                     !.s.roomId = m.roomId,
                                     !.s.isHost = m.isHost,
                                     !.s.userCount = 1,
                                     !.s.users = <<UserInfo(m.oderId, TRUE, TRUE)>>])
      [] m.type = "ROOM_JOINED" ->
           LET w1 == [w EXCEPT !.s.oderId = m.oderId,
                               !.s.roomId = m.roomId,
                               !.s.isHost = m.isHost,
                               !.s.userCount = CountOf(m.users),
                               !.s.users = m.users]
               w2 == IF HasUser(m.users, m.oderId)
                     THEN [w1 EXCEPT !.s.canControl =
                                         FindUser(m.users, m.oderId).canControl]
                     ELSE w1
           IN \* undefined.find throws (1162); onmessage catches it (1003)
              IF m.users = NoUsers THEN w1 ELSE ReleaseRoomLock(w2)
      [] m.type = "ROOM_LEFT" ->
           ReleaseRoomLock(ClearRoom(w))
      [] m.type = "SYNC_EVENT" ->
           IF IsOwn(w, m) THEN w
           ELSE ForwardToAllTabs(w, "APPLY_SYNC", m.data)
      [] m.type = "NAVIGATE" ->
           IF IsOwn(w, m) THEN w
           ELSE ForwardToAllTabs(w, "NAVIGATE", m.data)
      [] m.type = "STATE_REQUEST" ->
           RequestPlayerState(w)
      [] m.type = "USER_JOINED" ->
           LET w1 == [w EXCEPT !.s.userCount = CountOf(m.users), !.s.users = m.users]
           IN IF w1.s.isHost THEN RequestPlayerState(w1) ELSE w1
      [] m.type = "USER_LEFT" ->
           LET w1 == [w EXCEPT !.s.userCount = CountOf(m.users), !.s.users = m.users]
           IN IF m.data = w1.s.oderId THEN [w1 EXCEPT !.s.isHost = TRUE] ELSE w1
      [] m.type = "USERS_LIST" ->
           LET w1 == [w EXCEPT !.s.users = m.users]
           IN \* undefined.find throws (1288); onmessage catches it (1003)
              IF m.users = NoUsers THEN w1
              ELSE IF HasUser(m.users, w1.s.oderId)
              THEN [w1 EXCEPT !.s.canControl = FindUser(m.users, w1.s.oderId).canControl,
                              !.s.isHost = FindUser(m.users, w1.s.oderId).isHost]
              ELSE w1
      [] m.type = "PERMISSION_CHANGED" ->
           IF m.oderId = w.s.oderId THEN [w EXCEPT !.s.canControl = m.data] ELSE w
      [] m.type = "ERROR" ->
           LET w1 == ReleaseRoomLock(w)
               w2 == IF IsRoomNotFound(m) THEN ClearRoom(w1) ELSE w1
           IN \* undefined.includes throws (1311); onmessage catches it (1003)
              IF m.code # "ROOM_NOT_FOUND" /\ m.text = Missing THEN w1
              ELSE ForwardToAllTabs(w2, "ERROR", [code |-> m.code, message |-> m.text])
      [] OTHER -> w

----------------------------------------------------------------------------
(* Message router: commands of the popup and the content scripts           *)
(* (popup.ts 1529-2067).  Payloads are well formed.                        *)

\* The reason a lifecycle command is rejected with while the lock is held
InProgressText == "Another room operation is in progress"

InProgress(cmd) == Err(cmd, InProgressText)

\* Entries of the trail: a create, join or auto-join has left a room for
\* another one; the relay has read a
\* request of a room-lifecycle operation; such a request was lost with the
\* socket that carried it
Left(roomId) == [ev |-> "left", type |-> Null, roomId |-> roomId]

Read(m) == [ev |-> "read", type |-> m.type, roomId |-> m.roomId]

IsLifecycle(m) == m.type \in {"CREATE_ROOM", "JOIN_ROOM", "LEAVE_ROOM"}

Noted(w, m) ==
    IF IsLifecycle(m) THEN [w EXCEPT !.trail = Append(@, Read(m))] ELSE w

LostWith(i, wr) ==
    LET lost == SelectSeq(wr, LAMBDA e : e.sock = i /\ IsLifecycle(e.msg))
    IN [k \in 1..Len(lost) |->
           [ev |-> "lost", type |-> lost[k].msg.type, roomId |-> lost[k].msg.roomId]]

LeaveMsg(ss) == Msg("LEAVE_ROOM", ss.roomId, ss.oderId, Null)

\* "If already in a room, leave it first" (1556-1568, 1632-1644, 1713-1728)
LeaveFirst(w) ==
    IF w.s.roomId # Null
    THEN ClearRoom(SendMessage([w EXCEPT !.trail = Append(@, Left(w.s.roomId))],
                               LeaveMsg(w.s)))
    ELSE w

\* The closure a lifecycle command leaves behind while it waits
Closure(kind, roomId, seq, phase, poll, tmo) ==
    [kind |-> kind, roomId |-> roomId, seq |-> seq, phase |-> phase,
     poll |-> poll, tmo |-> tmo]

\* doCreate / doJoin of a closure
DoRequest(w, c) ==
    IF c.kind = "CREATE"
    THEN SendMessage(w, Msg("CREATE_ROOM", Null, w.s.oderId, Null))
    ELSE SendMessage(w, Msg("JOIN_ROOM", c.roomId, w.s.oderId, Null))

\* The tail of CREATE_ROOM and JOIN_ROOM: connect and poll, or send at once
ConnectThenRequest(w, c) ==
    IF ~w.s.connected
    THEN [Connect(w) EXCEPT !.ops = Append(@, c)]
    ELSE DoRequest(w, c)

\* case 'CONNECT'
CmdConnect(w) == [Connect(w) EXCEPT !.resp = Ok("CONNECT")]

\* case 'DISCONNECT'
CmdDisconnect(w) == [Disconnect(w) EXCEPT !.resp = Ok("DISCONNECT")]

\* case 'CREATE_ROOM'
CmdCreateRoom(w, seq) ==
    IF ~CanAcquire(w.lock)
    THEN [w EXCEPT !.resp = InProgress("CREATE_ROOM")]
    ELSE LET w1 == AcquireRoomLock(w, Operation("CREATE_ROOM", Null, seq))
             w2 == LeaveFirst(w1)
             c == Closure("CREATE", Null, seq, "poll", TRUE, OPERATION_TIMEOUT_MS)
         IN [ConnectThenRequest(w2, c) EXCEPT !.resp = Ok("CREATE_ROOM")]

\* case 'JOIN_ROOM'
CmdJoinRoom(w, targetRoomId, seq) ==
    IF ~CanAcquire(w.lock)
    THEN [w EXCEPT !.resp = InProgress("JOIN_ROOM")]
    ELSE LET w1 == AcquireRoomLock(w, Operation("JOIN_ROOM", targetRoomId, seq))
         IN IF w1.s.roomId = targetRoomId
            THEN [ReleaseRoomLock(w1) EXCEPT !.resp = Ok("JOIN_ROOM")]
            ELSE LET w2 == LeaveFirst(w1)
                     c == Closure("JOIN", targetRoomId, seq, "poll", TRUE,
                                  OPERATION_TIMEOUT_MS)
                 IN [ConnectThenRequest(w2, c) EXCEPT !.resp = Ok("JOIN_ROOM")]

\* case 'AUTO_JOIN_ROOM', up to the storage read (1681-1707, 1776)
CmdAutoJoinRoom(w, targetRoomId, seq) ==
    IF ~CanAcquire(w.lock)
    THEN [w EXCEPT !.resp = InProgress("AUTO_JOIN_ROOM")]
    ELSE LET w1 == AcquireRoomLock(w, Operation("JOIN_ROOM", targetRoomId, seq))
         IN IF w1.s.roomId = targetRoomId
            THEN [ReleaseRoomLock(w1) EXCEPT !.resp = Ok("AUTO_JOIN_ROOM")]
            ELSE [w1 EXCEPT !.resp = Ok("AUTO_JOIN_ROOM"),
                            !.ops = Append(@, Closure("AUTO", targetRoomId, seq,
                                                      "storage", FALSE, NoTimer))]

\* case 'LEAVE_ROOM'
CmdLeaveRoom(w) == [LeaveFirst(w) EXCEPT !.resp = Ok("LEAVE_ROOM"), !.trail = w.trail]

\* case 'PLAYER_EVENT'
CmdPlayerEvent(w, event) ==
    IF w.s.roomId = Null
    THEN [w EXCEPT !.resp = Err("PLAYER_EVENT", "Not in a room")]
    ELSE IF ~w.s.canControl
    THEN [w EXCEPT !.resp = Err("PLAYER_EVENT", "No control permission")]
    ELSE [SendMessage(w, Msg("SYNC_EVENT", w.s.roomId, w.s.oderId, event))
            EXCEPT !.resp = Ok("PLAYER_EVENT")]

\* case 'NAVIGATION_EVENT'
CmdNavigationEvent(w, navigation) ==
    IF w.s.roomId = Null
    THEN [w EXCEPT !.resp = Err("NAVIGATION_EVENT", "Not in a room")]
    ELSE IF ~w.s.canControl
    THEN [w EXCEPT !.resp = Err("NAVIGATION_EVENT", "No control permission")]
    ELSE [SendMessage(w, Msg("NAVIGATE", w.s.roomId, w.s.oderId, navigation))
            EXCEPT !.resp = Ok("NAVIGATION_EVENT")]

\* case 'KICK_USER' (1920-1933)
CmdKickUser(w, targetUserId) ==
    LET w1 == IF w.s.roomId # Null /\ w.s.isHost
              THEN SendMessage(w, Msg("KICK_USER", w.s.roomId, w.s.oderId, targetUserId))
              ELSE w
    IN [w1 EXCEPT !.resp = Ok("KICK_USER")]

\* case 'SET_PERMISSION' (1935-1949)
CmdSetPermission(w, targetUserId, canControl) ==
    LET w1 == IF w.s.roomId # Null /\ w.s.isHost
              THEN SendMessage(w, Msg("SET_PERMISSION", w.s.roomId, w.s.oderId,
                                      [targetUserId |-> targetUserId,
                                       canControl |-> canControl]))
              ELSE w
    IN [w1 EXCEPT !.resp = Ok("SET_PERMISSION")]

\* case 'SET_NAME' (1951-1964); session.userName is not part of the model
CmdSetName(w, name) ==
    LET w1 == IF w.s.connected
              THEN SendMessage(w, Msg("SET_NAME", Null, w.s.oderId, name))
              ELSE w
    IN [w1 EXCEPT !.resp = Ok("SET_NAME")]

\* case 'GET_USERS' (1966-1976)
CmdGetUsers(w) ==
    LET w1 == IF w.s.roomId # Null
              THEN SendMessage(w, Msg("GET_USERS", w.s.roomId, w.s.oderId, Null))
              ELSE w
    IN [w1 EXCEPT !.resp = Ok("GET_USERS")]

\* case 'FORCE_SYNC', up to the first await of forceSync (1882-1895, 1425-1434)
CmdForceSync(w) ==
    IF w.s.roomId = Null
    THEN [w EXCEPT !.resp = Err("FORCE_SYNC", "Not in a room")]
    ELSE IF ~w.s.canControl
    THEN [w EXCEPT !.resp = Err("FORCE_SYNC", "No control permission")]
    ELSE [w EXCEPT !.tasks.forceSyncs = @ + 1]

\* What the tabs give forceSync: no video tab, the URL of one, or its URL
\* and its playback state
TabOutcomes == {"none", "url", "state"}

\* The continuation of forceSync once the tabs have answered (1446-1488)
ForceSyncAnswered(w, outcome, navigation, event) ==
    LET w1 == [w EXCEPT !.tasks.forceSyncs = @ - 1]
        w2 == SendMessage(w1, Msg("NAVIGATE", w1.s.roomId, w1.s.oderId, navigation))
        w3 == IF outcome = "state"
              THEN SendMessage(w2, Msg("SYNC_EVENT", w2.s.roomId, w2.s.oderId, event))
              ELSE w2
    IN IF outcome = "none"
       THEN [w1 EXCEPT !.resp = Err("FORCE_SYNC", "No active video tab found")]
       ELSE [w3 EXCEPT !.resp = Ok("FORCE_SYNC")]

----------------------------------------------------------------------------
(* What a lifecycle command leaves running: the connection poll and the    *)
(* timeout of CREATE_ROOM / JOIN_ROOM (1580-1596, 1657-1673), the storage  *)
(* read, the counted poll and the delayed join of AUTO_JOIN_ROOM           *)
(* (1707-1774).                                                            *)

RemoveAt(seq, k) ==
    [j \in 1..(Len(seq) - 1) |-> IF j < k THEN seq[j] ELSE seq[j + 1]]

\* checkConnection sees session.connected
PollFires(w, k) ==
    LET c == w.ops[k]
    IN IF c.kind = "AUTO"
       THEN [w EXCEPT !.ops[k].poll = FALSE, !.ops[k].tmo = NoTimer,
                      !.ops[k].phase = "delay"]
       ELSE DoRequest([w EXCEPT !.ops[k].poll = FALSE], c)

\* The 10s timeout of CREATE_ROOM / JOIN_ROOM; the 50th poll of AUTO_JOIN_ROOM
OperationTimeout(w, k) ==
    LET w1 == [w EXCEPT !.ops = RemoveAt(@, k)]
    IN IF ~w1.s.connected THEN ReleaseRoomLock(w1) ELSE w1

\* chrome.storage.local.get(['userName']) settles
StorageRead(w, k, fulfilled) ==
    IF ~fulfilled
    THEN ReleaseRoomLock([w EXCEPT !.ops = RemoveAt(@, k)])
    ELSE LET w1 == LeaveFirst(w)
         IN IF ~w1.s.connected
            THEN [Connect(w1) EXCEPT !.ops[k].phase = "poll",
                                     !.ops[k].poll = TRUE,
                                     !.ops[k].tmo = AUTO_JOIN_TIMEOUT_MS]
            ELSE [w1 EXCEPT !.ops[k].phase = "delay"]

\* setTimeout(doJoin, ...) of AUTO_JOIN_ROOM fires
DelayedJoin(w, k) ==
    DoRequest([w EXCEPT !.ops = RemoveAt(@, k)], w.ops[k])

----------------------------------------------------------------------------
(* The relay and the sockets *)

UserLists ==
    { <<UserInfo(PeerId, TRUE, TRUE), UserInfo(LocalId, TRUE, FALSE)>>,
      <<UserInfo(PeerId, TRUE, TRUE), UserInfo(LocalId, FALSE, FALSE)>> }

ErrorMsg(code, text) == ServerMsg("ERROR", Null, Null, FALSE, <<>>, code, text)

\* What the relay may answer to a client message; Null: it answers nothing
Replies(m) ==
    CASE m.type = "CREATE_ROOM" ->
           { ServerMsg("ROOM_CREATED", r, m.userId, TRUE, <<>>, Null, Null) : r \in Rooms }
           \cup { ErrorMsg("SERVER_ERROR", "failed") }
      [] m.type = "JOIN_ROOM" ->
           { ServerMsg("ROOM_JOINED", m.roomId, m.userId, FALSE, us, Null, Null) :
                us \in UserLists }
           \cup { ErrorMsg("ROOM_NOT_FOUND", "does not exist") }
      [] m.type = "LEAVE_ROOM" ->
           { ServerMsg("ROOM_LEFT", m.roomId, Null, FALSE, <<>>, Null, Null) }
      [] OTHER ->
           { ServerMsg("HEARTBEAT_ACK", Null, Null, FALSE, <<>>, Null, Null) }

\* What the relay may send unasked to a client in a room, by message type:
\* events of either participant, a permission change, errors
PushTypes == {"SYNC_EVENT", "NAVIGATE", "PERMISSION_CHANGED", "ERROR"}

RoomPushes(type) ==
    CASE type = "PERMISSION_CHANGED" ->
           { RelayEvent(type, id, c) : id \in {LocalId, PeerId}, c \in BOOLEAN }
      [] type = "ERROR" ->
           { ErrorMsg("ROOM_NOT_FOUND", "not found"),
             ErrorMsg("SERVER_ERROR", "does not exist"),
             ErrorMsg("NOT_AUTHORIZED", "failed") }
      [] OTHER ->
           { RelayEvent(type, id, 1) : id \in {LocalId, PeerId} }

\* The member lists of a room of the two participants the relay may hold:
\* one of them is the host, and the host has control
MemberLists ==
    { <<UserInfo(LocalId, TRUE, TRUE)>>,
      <<UserInfo(LocalId, TRUE, TRUE), UserInfo(PeerId, TRUE, FALSE)>> }
    \cup UserLists

HostOf(users) == (CHOOSE k \in 1..Len(users) : users[k].isHost)

\* A membership message of the relay; of USER_LEFT, data is newHostId
MemberMsg(type, users, newHostId) ==
    [ServerMsg(type, Null, PeerId, FALSE, users, Null, Null) EXCEPT !.data = newHostId]

MemberTypes == {"USER_JOINED", "USER_LEFT", "USERS_LIST"}

\* The membership messages the relay may send unasked: newHostId is absent
\* or names the host of the list
MemberPushes(type) ==
    IF type = "USER_LEFT"
    THEN UNION { { MemberMsg(type, us, h) : h \in {Null, us[HostOf(us)].oderId} } :
                    us \in MemberLists }
    ELSE { MemberMsg(type, us, Null) : us \in MemberLists }

\* Payloads that lack a member the handler reads
MalformedMsgs ==
    { ServerMsg("ROOM_JOINED", r, LocalId, FALSE, NoUsers, Null, Null) : r \in Rooms }
    \cup { MemberMsg("USERS_LIST", NoUsers, Null),
           ErrorMsg("SERVER_ERROR", Missing),
           ErrorMsg("ROOM_NOT_FOUND", Missing) }

\* What the relay may send unasked
Pushes == { ServerMsg("STATE_REQUEST", Null, PeerId, FALSE, <<>>, Null, Null) }

FirstOn(i, wr) ==
    CHOOSE k \in 1..Len(wr) : wr[k].sock = i /\ \A j \in 1..(k - 1) : wr[j].sock # i

RECURSIVE Without(_, _)
Without(i, wr) ==
    IF wr = <<>> THEN <<>>
    ELSE IF Head(wr).sock = i THEN Without(i, Tail(wr))
    ELSE <<Head(wr)>> \o Without(i, Tail(wr))

\* The close codes the close event of a socket may carry
CloseCodes(sock) ==
    IF sock.rs = "OPEN" THEN {CLOSE_NORMAL, CLOSE_ABNORMAL}
    ELSE IF sock.rs = "CLOSING" /\ sock.lc = "clean" THEN {CLOSE_NORMAL}
    ELSE {CLOSE_ABNORMAL}

----------------------------------------------------------------------------
(* Actions *)

Commit(w, u) ==
    /\ Len(w.socks) <= lim.socks
    /\ Len(w.wire) <= lim.wire
    /\ s' = w.s
    /\ socks' = w.socks
    /\ recon' = w.recon
    /\ ops' = w.ops
    /\ lock' = w.lock
    /\ wire' = w.wire
    /\ tasks' = w.tasks
    /\ failed' = w.failed
    /\ resp' = w.resp
    /\ closes' = w.closes
    /\ forwarded' = w.forwarded
    /\ trail' = w.trail
    /\ used' = u
    /\ lim' = lim
    /\ UNCHANGED <<syncVars, script>>

\* A socket reaches OPEN and its onopen handler runs
SocketOpens(i) ==
    /\ socks[i].rs = "CONNECTING"
    /\ Commit(OnOpen([World EXCEPT !.socks[i].rs = "OPEN", !.closes = 0], i), used)

\* A close that onclose answers by reconnecting or giving up: not clean, in a room
Unclean(code) == code # CLOSE_NORMAL /\ s.roomId # Null

\* A socket reaches CLOSED and its onclose handler runs with the close code.
\* What it sent and the relay has not read is lost with it.
SocketCloses(i, code) ==
    /\ socks[i].rs \in {"CONNECTING", "OPEN", "CLOSING"}
    /\ code \in CloseCodes(socks[i])
    /\ Commit(OnClose([World EXCEPT !.socks[i].rs = "CLOSED",
                                    !.socks[i].lc = "none",
                                    !.closes = IF Unclean(code) THEN @ + 1 ELSE @,
                                    !.trail = @ \o LostWith(i, wire),
                                    !.wire = Without(i, @)], i, code),
              used)

\* The connectionTimeout of socket i fires
ConnectionTimeoutFires(i) ==
    /\ socks[i].tmo = 0
    /\ Commit(ConnectionTimeout(World, i), used)

\* A reconnect timer fires: connect()
ReconnectFires(k) ==
    /\ recon[k] = 0
    /\ Commit(Connect([World EXCEPT !.recon = RemoveAt(@, k)]), used)

\* The heartbeat interval fires (1061-1063)
HeartbeatFires ==
    /\ s.heartbeatInterval = 0
    /\ Commit(SendMessage([World EXCEPT !.s.heartbeatInterval = HEARTBEAT_INTERVAL_MS],
                          Msg("HEARTBEAT", Null, s.oderId, Null)),
              used)

\* The relay reads the oldest message of socket i and answers it; onmessage
RelayAnswers(i, m) ==
    /\ socks[i].rs = "OPEN"
    /\ \E k \in 1..Len(wire) : wire[k].sock = i
    /\ m \in Replies(wire[FirstOn(i, wire)].msg)
    /\ Commit(HandleServerMessage(
                  Noted([World EXCEPT !.wire = RemoveAt(@, FirstOn(i, wire))],
                        wire[FirstOn(i, wire)].msg), m),
              used)

\* The relay sends a message of its own on socket i; onmessage
RelayPushes(i, m) ==
    /\ socks[i].rs = "OPEN"
    /\ used.pushes < lim.pushes
    /\ Commit(HandleServerMessage(World, m), [used EXCEPT !.pushes = @ + 1])

\* The relay sends a member list to a client in a room.  The relay and the
\* client agree on whether the client is the host, unless the message names
\* the client as the new host.
Agreed(ss, m) ==
    \/ m.data = ss.oderId
    \/ /\ HasUser(m.users, ss.oderId)
       /\ FindUser(m.users, ss.oderId).isHost = ss.isHost

RelayPushesMembers(i, m) ==
    /\ s.roomId # Null
    /\ Agreed(s, m)
    /\ RelayPushes(i, m)

\* onmessage with data that JSON.parse rejects: the catch logs it (999-1006)
RelayPushesGarbage(i) ==
    /\ socks[i].rs = "OPEN"
    /\ used.pushes < lim.pushes
    /\ Commit(World, [used EXCEPT !.pushes = @ + 1])

\* A tab answers REQUEST_STATE, or none does
TabAnswers(success) ==
    /\ tasks.stateRequests > 0
    /\ Commit(PlayerStateAnswered(World, success), used)

PollReady(c) == c.poll /\ s.connected

Poll(k) ==
    /\ PollReady(ops[k])
    /\ Commit(PollFires(World, k), used)

\* The counted poll of AUTO_JOIN_ROOM gives up only when it is not connected
OperationTimeoutFires(k) ==
    /\ ops[k].tmo = 0
    /\ ops[k].kind = "AUTO" => ~PollReady(ops[k])
    /\ Commit(OperationTimeout(World, k), used)

StorageSettles(k, fulfilled) ==
    /\ ops[k].phase = "storage"
    /\ Commit(StorageRead(World, k, fulfilled), used)

DelayedJoinFires(k) ==
    /\ ops[k].phase = "delay"
    /\ Commit(DelayedJoin(World, k), used)

NextSeq == used.cmds + 1

Command(w) ==
    /\ used.cmds < lim.cmds
    /\ Commit(w, [used EXCEPT !.cmds = @ + 1])

ConnectCommand == Command(CmdConnect(World))
DisconnectCommand == Command(CmdDisconnect(World))
CreateRoomCommand == Command(CmdCreateRoom(World, NextSeq))
JoinRoomCommand(r) == Command(CmdJoinRoom(World, r, NextSeq))
AutoJoinRoomCommand(r) == Command(CmdAutoJoinRoom(World, r, NextSeq))
LeaveRoomCommand == Command(CmdLeaveRoom(World))

KickUserCommand == Command(CmdKickUser(World, PeerId))
SetPermissionCommand(c) == Command(CmdSetPermission(World, PeerId, c))
SetNameCommand == Command(CmdSetName(World, "name"))
GetUsersCommand == Command(CmdGetUsers(World))

\* A content script reports a player event; events are told apart by number
PlayerEventCommand ==
    /\ used.events < lim.events
    /\ Commit(CmdPlayerEvent(World, used.events + 1),
              [used EXCEPT !.events = @ + 1])

\* A content script reports a navigation
NavigationEventCommand ==
    /\ used.events < lim.events
    /\ Commit(CmdNavigationEvent(World, used.events + 1),
              [used EXCEPT !.events = @ + 1])

\* The popup asks for a force sync
ForceSyncCommand ==
    /\ used.events < lim.events
    /\ Commit(CmdForceSync(World), [used EXCEPT !.events = @ + 1])

\* The tabs have answered forceSync
ForceSyncSettles(outcome) ==
    /\ tasks.forceSyncs > 0
    /\ Commit(ForceSyncAnswered(World, outcome, used.events, used.events), used)

\* Time passes, unless a timer is due or a task is ready to run
Dec(t) == IF t = NoTimer THEN NoTimer ELSE Max(0, t - TickMs)

Due ==
    \/ \E i \in 1..Len(socks) : socks[i].tmo = 0
    \/ \E k \in 1..Len(recon) : recon[k] = 0
    \/ \E k \in 1..Len(ops) :
          ops[k].tmo = 0 \/ PollReady(ops[k]) \/ ops[k].phase \in {"storage", "delay"}
    \/ s.heartbeatInterval = 0
    \/ tasks.stateRequests > 0
    \/ tasks.forceSyncs > 0

Tick ==
    /\ ~Due
    /\ lim.clock = "free" \/ used.time < lim.time
    /\ s' = [s EXCEPT !.heartbeatInterval = Dec(@)]
    /\ socks' = [i \in 1..Len(socks) |-> [socks[i] EXCEPT !.tmo = Dec(@)]]
    /\ recon' = [k \in 1..Len(recon) |-> Dec(recon[k])]
    /\ ops' = [k \in 1..Len(ops) |-> [ops[k] EXCEPT !.tmo = Dec(@)]]
    /\ lock' = IF lock.type # Null /\ ~LockIsStale(lock)
               THEN [lock EXCEPT !.age = @ + TickMs]
               ELSE lock
    /\ used' = IF lim.clock = "free" THEN used ELSE [used EXCEPT !.time = @ + 1]
    /\ UNCHANGED <<wire, tasks, failed, resp, closes, forwarded, trail, lim, syncVars, script>>

----------------------------------------------------------------------------
(* Adaptive sync controller (part_002).  Playback positions and            *)
(* timestamps are whole milliseconds where the source has seconds as       *)
(* floating-point numbers; a playback rate r is the integer r * RateOne.   *)

RateOne == 100 * 1000

\* DEFAULT_SYNC_CONFIG (22-33); factors are in thousandths
smallDriftThreshold == 300
mediumDriftThreshold == 1500
largeDriftThreshold == 5000
minPlaybackRate == (9 * RateOne) \div 10
maxPlaybackRate == (11 * RateOne) \div 10
correctionFactor == 400
maxLatencyCompensation == 2000
minLatencyCompensation == 10

\* The literals of calculateSyncAction (157, 171, 198-199)
NEGLIGIBLE_DRIFT_MS == 30
MAX_SEEK_DURATION_MS == 400
MICRO_FACTOR == 150
MIN_MICRO_RATE == (95 * RateOne) \div 100
MAX_MICRO_RATE == (105 * RateOne) \div 100

Abs(x) == IF x < 0 THEN -x ELSE x

\* A variant of the threshold test that the threshold itself passes
Reaches(absDrift, threshold) == absDrift >= threshold

\* absDrift > this.config.<threshold> (162, 167, 176)
Exceeds(absDrift, threshold) == absDrift > threshold

\* A variant of the rate that is not clamped
UnclampedRate(drift, factor, lo, hi) ==
    IF drift > 0
    THEN RateOne + (Abs(drift) * factor * (RateOne \div 1000)) \div 1000
    ELSE RateOne - (Abs(drift) * factor * (RateOne \div 1000)) \div 1000

\* 1 +- (absDrift / 1000) * factor, clamped: up when behind (drift > 0),
\* down when ahead (179-191, 197-199).  The division is exact.
AdjustedRate(drift, factor, lo, hi) ==
    IF drift > 0
    THEN Min(hi, RateOne + (Abs(drift) * factor * (RateOne \div 1000)) \div 1000)
    ELSE Max(lo, RateOne - (Abs(drift) * factor * (RateOne \div 1000)) \div 1000)

\* calculateSyncAction; the duration of a smooth seek, absDrift / 4 capped
\* at 400ms, is given in quarters of a millisecond
CalculateSyncAction(currentTime, targetTime, isPlaying) ==
    LET drift == targetTime - currentTime
        absDrift == Abs(drift)
    IN IF ~isPlaying \/ absDrift < NEGLIGIBLE_DRIFT_MS
       THEN [type |-> "none"]
       ELSE IF Exceeds(absDrift, largeDriftThreshold)
       THEN [type |-> "hard_seek", targetTime |-> targetTime]
       ELSE IF Exceeds(absDrift, mediumDriftThreshold)
       THEN [type |-> "smooth_seek", targetTime |-> targetTime,
             duration |-> Min(4 * MAX_SEEK_DURATION_MS, absDrift)]
       ELSE IF Exceeds(absDrift, smallDriftThreshold)
       THEN [type |-> "adjust_speed",
             rate |-> AdjustedRate(drift, correctionFactor,
                                   minPlaybackRate, maxPlaybackRate)]
       ELSE [type |-> "adjust_speed",
             rate |-> AdjustedRate(drift, MICRO_FACTOR, MIN_MICRO_RATE, MAX_MICRO_RATE)]

maxClockSamples == 10
maxLatencySamples == 20
CLOCK_AHEAD_MS == -100
BASELINE_LATENCY_MS == 200

\* A variant that pushes and never shifts
PushOnly(samples, sample, limit) == Append(samples, sample)

\* push, then shift once the array is longer than limit (96-99, 110-113)
PushShift(samples, sample, limit) ==
    LET pushed == Append(samples, sample)
    IN IF Len(pushed) > limit THEN Tail(pushed) ELSE pushed

\* A variant that takes the smallest sample
SmallestOf(sorted) == sorted[1]

\* sorted[Math.floor(sorted.length / 2)] (103)
MiddleOf(sorted) == sorted[(Len(sorted) \div 2) + 1]

\* updateClockOffset: the median of the last samples
UpdateClockOffset(c, sample) ==
    LET samples == PushShift(c.clockOffsetSamples, sample, maxClockSamples)
        sorted == SortSeq(samples, LAMBDA a, b : a < b)
    IN [c EXCEPT !.clockOffsetSamples = samples,
                 !.clockOffset = MiddleOf(sorted)]

\* recordLatency
RecordLatency(c, latency) ==
    [c EXCEPT !.latencySamples = PushShift(@, latency, maxLatencySamples)]

\* A variant of calculateLatency that leaves the clock offset out
CalculateLatencyUnadjusted(c, dateNow, eventTimestamp) ==
    LET rawLatency == dateNow - eventTimestamp
        c1 == IF rawLatency < CLOCK_AHEAD_MS
              THEN UpdateClockOffset(c, rawLatency)
              ELSE IF rawLatency > maxLatencyCompensation
              THEN UpdateClockOffset(c, rawLatency - BASELINE_LATENCY_MS)
              ELSE c
        clampedLatency == Max(0, Min(rawLatency, maxLatencyCompensation))
    IN [ctl |-> RecordLatency(c1, clampedLatency), latency |-> clampedLatency]

\* calculateLatency at Date.now() = dateNow: the controller it leaves and
\* the latency it returns
CalculateLatency(c, dateNow, eventTimestamp) ==
    LET rawLatency == dateNow - eventTimestamp
        c1 == IF rawLatency < CLOCK_AHEAD_MS
              THEN UpdateClockOffset(c, rawLatency)
              ELSE IF rawLatency > maxLatencyCompensation
              THEN UpdateClockOffset(c, rawLatency - BASELINE_LATENCY_MS)
              ELSE c
        adjustedLatency == rawLatency - c1.clockOffset
        clampedLatency == Max(0, Min(adjustedLatency, maxLatencyCompensation))
    IN [ctl |-> RecordLatency(c1, clampedLatency), latency |-> clampedLatency]

\* A variant of the test that compensates paused targets too
SmallLatencyOnly(latency, isPlaying) == latency < minLatencyCompensation

\* latency < minLatencyCompensation || !isPlaying (134)
Uncompensated(latency, isPlaying) == latency < minLatencyCompensation \/ ~isPlaying

\* A variant of the compensation that moves the target back
Rewound(targetTime, latency) == targetTime - latency

\* targetTime + latency / 1000, in ms (140-141)
Compensated(targetTime, latency) == targetTime + latency

\* compensateForLatency: the controller it leaves and the time it returns
CompensateForLatency(c, dateNow, targetTime, eventTimestamp, isPlaying) ==
    LET r == CalculateLatency(c, dateNow, eventTimestamp)
    IN [ctl |-> r.ctl,
        time |-> IF Uncompensated(r.latency, isPlaying) THEN targetTime
                 ELSE Compensated(targetTime, r.latency)]

SPEED_RESET_MS == 2000
NoHandle == 0

\* A variant that records the rate of the video at every adjustment
RecordAlways(c, v) ==
    [c EXCEPT !.originalPlaybackRate = v.playbackRate, !.isAdjustingSpeed = TRUE]

\* The rate of the video is recorded unless an adjustment is under way
\* (222-225)
RecordOriginal(c, v) ==
    IF ~c.isAdjustingSpeed
    THEN [c EXCEPT !.originalPlaybackRate = v.playbackRate, !.isAdjustingSpeed = TRUE]
    ELSE c

\* A variant that leaves a reset timeout that is already set to run
ApplyKeepingTimeout(c, v, rate) ==
    [ctl |-> [RecordOriginal(c, v) EXCEPT
                 !.speedResetTimeout = IF @ = NoTimer THEN SPEED_RESET_MS ELSE @],
     video |-> [v EXCEPT !.playbackRate = rate]]

\* applySpeedAdjustment: the controller and the video it leaves; the reset
\* timeout is cleared and set anew
ApplySpeedAdjustment(c, v, rate) ==
    [ctl |-> [RecordOriginal(c, v) EXCEPT !.speedResetTimeout = SPEED_RESET_MS],
     video |-> [v EXCEPT !.playbackRate = rate]]

\* resetSpeed
ResetSpeed(c, v) ==
    [ctl |-> [c EXCEPT !.isAdjustingSpeed = FALSE, !.speedResetTimeout = NoTimer],
     video |-> IF c.isAdjustingSpeed
               THEN [v EXCEPT !.playbackRate = c.originalPlaybackRate]
               ELSE v]

SEEK_FRAME_MS == 16
SEEK_SAFETY_MS == 100

\* What smoothSeek keeps of a seek: where and when it began, its target
\* and duration, the time left to the next run of its interval and to its
\* safety timeout (NoTimer: cleared, or fired), whether its promise is
\* resolved.  Its place in seeks is the handle of its interval.
NewSeek(v, t, targetTime, duration) ==
    [startTime |-> v.currentTime, startTs |-> t, targetTime |-> targetTime,
     duration |-> duration, interval |-> SEEK_FRAME_MS,
     timeout |-> duration + SEEK_SAFETY_MS, resolved |-> FALSE]

\* clearInterval(handle)
ClearInterval(sk, handle) ==
    IF handle = NoHandle THEN sk ELSE [sk EXCEPT ![handle].interval = NoTimer]

\* smoothSeek, up to the return of the promise (258-294)
SmoothSeek(c, v, sk, t, targetTime, duration) ==
    LET sk1 == ClearInterval(sk, c.smoothSeekInterval)
    IN [ctl |-> [c EXCEPT !.smoothSeekInterval = Len(sk1) + 1],
        seeks |-> Append(sk1, NewSeek(v, t, targetTime, duration))]

\* startTime + diff * eased at time t, with progress = min(1, elapsed /
\* duration) and eased = 1 - (1 - progress)^2, cut to a whole millisecond
EasedPosition(seek, t) ==
    LET d == seek.duration
        e == Min(t - seek.startTs, d)
        diff == seek.targetTime - seek.startTime
    IN seek.startTime + (diff * (d * d - (d - e) * (d - e))) \div (d * d)

\* if (this.smoothSeekInterval) of the safety timeout (288)
SomeIntervalRuns(c, sk, k) == c.smoothSeekInterval # NoHandle

\* A run of the interval of seek k at time t (268-284)
IntervalCallback(c, v, sk, t, k) ==
    LET v1 == [v EXCEPT !.currentTime = EasedPosition(sk[k], t)]
    IN IF t - sk[k].startTs >= sk[k].duration
       THEN [ctl |-> [c EXCEPT !.smoothSeekInterval = NoHandle], video |-> v1,
             seeks |-> [ClearInterval([sk EXCEPT ![k].interval = SEEK_FRAME_MS],
                                      c.smoothSeekInterval)
                           EXCEPT ![k].resolved = TRUE]]
       ELSE [ctl |-> c, video |-> v1, seeks |-> [sk EXCEPT ![k].interval = SEEK_FRAME_MS]]

\* The safety timeout of seek k (287-294)
SafetyTimeout(c, v, sk, k) ==
    LET sk1 == [sk EXCEPT ![k].timeout = NoTimer]
    IN IF SomeIntervalRuns(c, sk, k)
       THEN [ctl |-> [c EXCEPT !.smoothSeekInterval = NoHandle],
             video |-> [v EXCEPT !.currentTime = sk[k].targetTime],
             seeks |-> [ClearInterval(sk1, c.smoothSeekInterval)
                           EXCEPT ![k].resolved = TRUE]]
       ELSE [ctl |-> c, video |-> v, seeks |-> sk1]

\* destroy: the reset timeout and the interval are cleared (301-310)
Destroy(c, sk) ==
    [ctl |-> [c EXCEPT !.speedResetTimeout = NoTimer, !.smoothSeekInterval = NoHandle],
     seeks |-> ClearInterval(sk, c.smoothSeekInterval)]

\* reset: destroy, then the fields of a new controller (315-322)
Reset(c, sk) ==
    LET d == Destroy(c, sk)
    IN [ctl |-> [d.ctl EXCEPT !.clockOffset = 0, !.clockOffsetSamples = <<>>,
                              !.latencySamples = <<>>, !.isAdjustingSpeed = FALSE,
                              !.originalPlaybackRate = RateOne],
        seeks |-> d.seeks]

\* The fields of a new controller (43-55)
NewController ==
    [originalPlaybackRate |-> RateOne, isAdjustingSpeed |-> FALSE,
     speedResetTimeout |-> NoTimer, smoothSeekInterval |-> NoHandle,
     clockOffset |-> 0, clockOffsetSamples |-> <<>>, latencySamples |-> <<>>]

\* No method called yet.  With a call goes whether it is part of a speed
\* adjustment episode, begun by the first applySpeedAdjustment since a
\* reset, how many adjustments the episode has, and the rate the video had
\* before it.
NoCall == [op |-> Null, inEpisode |-> FALSE, adjustments |-> 0, before |-> RateOne]

\* A method of the controller is called, within the budget of calls
Called(c) ==
    /\ used.cmds < lim.cmds
    /\ call' = c
    /\ used' = [used EXCEPT !.cmds = @ + 1]
    /\ UNCHANGED <<popupVars, script, lim>>

\* calculateSyncAction(currentTime, targetTime, isPlaying) is called
CalculateSyncActionCall(currentTime, targetTime, isPlaying) ==
    /\ Called([op |-> "calculateSyncAction", currentTime |-> currentTime,
               targetTime |-> targetTime, isPlaying |-> isPlaying,
               result |-> CalculateSyncAction(currentTime, targetTime, isPlaying)])
    /\ UNCHANGED <<ctl, video, seeks, now>>

\* applySpeedAdjustment(video, rate) is called
ApplySpeedAdjustmentCall(rate) ==
    LET r == ApplySpeedAdjustment(ctl, video, rate)
    IN /\ Called([op |-> "applySpeedAdjustment", at |-> now, inEpisode |-> TRUE,
                  adjustments |-> IF call.inEpisode THEN call.adjustments + 1 ELSE 1,
                  before |-> IF call.inEpisode THEN call.before
                             ELSE video.playbackRate])
       /\ ctl' = r.ctl
       /\ video' = r.video
       /\ UNCHANGED <<seeks, now>>

\* resetSpeed(video) is called
ResetSpeedCall ==
    LET r == ResetSpeed(ctl, video)
    IN /\ Called([op |-> "resetSpeed", inEpisode |-> FALSE,
                  adjustments |-> call.adjustments, before |-> call.before])
       /\ ctl' = r.ctl
       /\ video' = r.video
       /\ UNCHANGED <<seeks, now>>

\* The timeout set by applySpeedAdjustment fires: resetSpeed(video)
SpeedResetFires ==
    LET r == ResetSpeed(ctl, video)
    IN /\ ctl.speedResetTimeout # NoTimer
       /\ call' = [op |-> "speedResetTimeout", inEpisode |-> FALSE,
                   adjustments |-> call.adjustments, before |-> call.before]
       /\ ctl' = r.ctl
       /\ video' = r.video
       /\ UNCHANGED <<popupVars, script, used, lim, seeks, now>>

\* The timeout set by applySpeedAdjustment fires when its 2s are over
SpeedResetDue ==
    /\ ctl.speedResetTimeout = 0
    /\ SpeedResetFires

\* Time passes, up to the moment the reset timeout is due
SpeedTick(step) ==
    /\ now + step <= lim.time
    /\ ctl.speedResetTimeout = NoTimer \/ step <= ctl.speedResetTimeout
    /\ now' = now + step
    /\ ctl' = [ctl EXCEPT !.speedResetTimeout = IF @ = NoTimer THEN NoTimer ELSE @ - step]
    /\ UNCHANGED <<popupVars, script, used, lim, video, seeks, call>>

\* The episode the latest call belongs to, if the call tells
Episode == IF "inEpisode" \in DOMAIN call THEN call ELSE NoCall

\* destroy() is called: it ends no episode
DestroyCall ==
    LET r == Destroy(ctl, seeks)
    IN /\ Called([op |-> "destroy", inEpisode |-> Episode.inEpisode,
                  adjustments |-> Episode.adjustments, before |-> Episode.before])
       /\ ctl' = r.ctl
       /\ seeks' = r.seeks
       /\ UNCHANGED <<video, now>>

\* reset() is called
ResetCall ==
    LET r == Reset(ctl, seeks)
    IN /\ Called([NoCall EXCEPT !.op = "reset"])
       /\ ctl' = r.ctl
       /\ seeks' = r.seeks
       /\ UNCHANGED <<video, now>>

\* The page or the viewer sets the playback rate of the video
PageSetsRate(rate) ==
    /\ video.playbackRate # rate
    /\ video' = [video EXCEPT !.playbackRate = rate]
    /\ UNCHANGED <<popupVars, script, used, lim, ctl, seeks, now, call>>

\* smoothSeek(video, targetTime, duration) is called
SmoothSeekCall(targetTime, duration) ==
    LET r == SmoothSeek(ctl, video, seeks, now, targetTime, duration)
    IN /\ Called([op |-> "smoothSeek", targetTime |-> targetTime,
                  duration |-> duration])
       /\ ctl' = r.ctl
       /\ seeks' = r.seeks
       /\ UNCHANGED <<video, now>>

\* The interval of seek k is due and its callback runs
IntervalFires(k) ==
    LET r == IntervalCallback(ctl, video, seeks, now, k)
    IN /\ seeks[k].interval = 0
       /\ ctl' = r.ctl
       /\ video' = r.video
       /\ seeks' = r.seeks
       /\ UNCHANGED <<popupVars, script, used, lim, now, call>>

\* The interval of seek k is due and the browser does not run its callback
IntervalSkipped(k) ==
    /\ seeks[k].interval = 0
    /\ seeks' = [seeks EXCEPT ![k].interval = SEEK_FRAME_MS]
    /\ UNCHANGED <<popupVars, script, used, lim, ctl, video, now, call>>

\* The safety timeout of seek k fires
SafetyFires(k) ==
    LET r == SafetyTimeout(ctl, video, seeks, k)
    IN /\ seeks[k].timeout = 0
       /\ ctl' = r.ctl
       /\ video' = r.video
       /\ seeks' = r.seeks
       /\ UNCHANGED <<popupVars, script, used, lim, now, call>>

\* The timers of the seeks that are running
SeekTimers ==
    { seeks[k].interval : k \in 1..Len(seeks) } \cup { seeks[k].timeout : k \in 1..Len(seeks) }

\* Time passes up to the next timer of a seek
SeekTick ==
    LET running == SeekTimers \ {NoTimer}
        step == CHOOSE x \in running : \A y \in running : x <= y
        Later(x) == IF x = NoTimer THEN NoTimer ELSE x - step
    IN /\ running # {}
       /\ 0 \notin running
       /\ now' = now + step
       /\ seeks' = [k \in 1..Len(seeks) |->
                       [seeks[k] EXCEPT !.interval = Later(@), !.timeout = Later(@)]]
       /\ UNCHANGED <<popupVars, script, used, lim, ctl, video, call>>

\* calculateLatency(eventTimestamp) is called
CalculateLatencyCall(eventTimestamp) ==
    LET r == CalculateLatency(ctl, DateNow, eventTimestamp)
    IN /\ Called([op |-> "calculateLatency", eventTimestamp |-> eventTimestamp,
                  clockOffset |-> ctl.clockOffset, result |-> r.latency])
       /\ ctl' = r.ctl
       /\ UNCHANGED <<video, seeks, now>>

\* compensateForLatency(targetTime, eventTimestamp, isPlaying) is called;
\* the call is kept with the clock offset it found
CompensateForLatencyCall(targetTime, eventTimestamp, isPlaying) ==
    LET r == CompensateForLatency(ctl, DateNow, targetTime, eventTimestamp, isPlaying)
    IN /\ Called([op |-> "compensateForLatency", targetTime |-> targetTime,
                  eventTimestamp |-> eventTimestamp, isPlaying |-> isPlaying,
                  clockOffset |-> ctl.clockOffset, result |-> r.time])
       /\ ctl' = r.ctl
       /\ UNCHANGED <<video, seeks, now>>

----------------------------------------------------------------------------
(* Content script and player adapter (youtube.ts 1048-1165, part_003       *)
(* 676-722 and 849-948, player.interface.ts 119-139 and 248-283).  The     *)
(* video is paused and the tab visible; the remote events are SEEKs.  A    *)
(* 'seeked' event is delivered at the instant the position is written.     *)

SYNC_COOLDOWN_MS == 200
REMOTE_ORIGIN_MS == 300
SEEK_DEBOUNCE_MS == 100
HARD_SEEK_DRIFT_MS == 5000
SMOOTH_SEEK_DRIFT_MS == 300
Never == -1

\* isApplyingSync of the script; eventOrigin and lastSeekTime of its
\* adapter; the pending timeouts that clear isApplyingSync and that set
\* eventOrigin back to LOCAL; the smooth seeks whose promise a call of
\* applySyncEvent awaits; the PLAYER_EVENTs handed to sendToBackground
NewScript ==
    [isApplyingSync |-> FALSE, eventOrigin |-> "LOCAL", lastSeekTime |-> Never,
     cooldowns |-> <<>>, origins |-> <<>>, awaiting |-> {}, sent |-> <<>>]

\* setRemoteOrigin (248-254)
SetRemoteOrigin(sc) ==
    [sc EXCEPT !.eventOrigin = "REMOTE", !.origins = Append(@, REMOTE_ORIGIN_MS)]

\* handleSeeked at time t with the video at `time`, and the onSeek
\* callback of the script that it calls
HandleSeeked(sc, t, time) ==
    IF sc.eventOrigin = "REMOTE"
    THEN sc
    ELSE IF sc.lastSeekTime # Never /\ t - sc.lastSeekTime < SEEK_DEBOUNCE_MS
    THEN sc
    ELSE LET sc1 == [sc EXCEPT !.lastSeekTime = t]
         IN IF sc1.isApplyingSync
            THEN sc1
            ELSE [sc1 EXCEPT !.sent = Append(@, [type |-> "SEEK", time |-> time,
                                                 timestamp |-> t])]

\* seek(time) of the adapter (269-280); the duration of the video is
\* beyond every position used
AdapterSeek(sc, v, t, time) ==
    LET to == Max(time, 0)
    IN [script |-> HandleSeeked(SetRemoteOrigin(sc), t, to),
        video |-> [v EXCEPT !.currentTime = to]]

\* The finally block of applySyncEvent (1160-1164)
Finally(sc) == [sc EXCEPT !.cooldowns = Append(@, SYNC_COOLDOWN_MS)]

\* applySyncEvent of a SEEK event to `time`, up to its await or its end
ApplySyncEvent(sc, c, v, sk, t, time, eventTimestamp) ==
    LET sc1 == [sc EXCEPT !.isApplyingSync = TRUE]
        comp == CompensateForLatency(c, DateNow, time, eventTimestamp, FALSE)
        seekDrift == Abs(v.currentTime - comp.time)
    IN IF seekDrift > SMOOTH_SEEK_DRIFT_MS /\ seekDrift <= HARD_SEEK_DRIFT_MS
       THEN LET r == SmoothSeek(comp.ctl, v, sk, t, comp.time, QUICK_SEEK_MS)
            IN [script |-> [sc1 EXCEPT !.awaiting = @ \cup {Len(r.seeks)}],
                ctl |-> r.ctl, video |-> v, seeks |-> r.seeks]
       ELSE LET a == AdapterSeek(sc1, v, t, comp.time)
            IN [script |-> Finally(a.script), ctl |-> comp.ctl,
                video |-> a.video, seeks |-> sk]

\* The calls of applySyncEvent whose awaited seek has resolved go on to
\* their finally block
Resume(sc, sk) ==
    LET done == { k \in sc.awaiting : sk[k].resolved }
    IN IF done = {} THEN sc ELSE [Finally(sc) EXCEPT !.awaiting = @ \ done]

\* The background hands a remote SEEK event to the script
SyncEventArrives(time) ==
    LET r == ApplySyncEvent(script, ctl, video, seeks, now, time, DateNow)
    IN /\ used.events < lim.events
       /\ used' = [used EXCEPT !.events = @ + 1]
       /\ script' = r.script
       /\ ctl' = r.ctl
       /\ video' = r.video
       /\ seeks' = r.seeks
       /\ UNCHANGED <<popupVars, lim, now, call>>

\* The interval of seek k is due: its callback writes the position, the
\* video reports 'seeked', and a call that awaited the seek goes on
ScriptIntervalFires(k) ==
    LET r == IntervalCallback(ctl, video, seeks, now, k)
    IN /\ seeks[k].interval = 0
       /\ ctl' = r.ctl
       /\ video' = r.video
       /\ seeks' = r.seeks
       /\ script' = Resume(HandleSeeked(script, now, r.video.currentTime), r.seeks)
       /\ UNCHANGED <<popupVars, used, lim, now, call>>

\* The safety timeout of seek k fires
ScriptSafetyFires(k) ==
    LET r == SafetyTimeout(ctl, video, seeks, k)
        sc == IF SomeIntervalRuns(ctl, seeks, k)
              THEN HandleSeeked(script, now, r.video.currentTime)
              ELSE script
    IN /\ seeks[k].timeout = 0
       /\ ctl' = r.ctl
       /\ video' = r.video
       /\ seeks' = r.seeks
       /\ script' = Resume(sc, r.seeks)
       /\ UNCHANGED <<popupVars, used, lim, now, call>>

\* The timeout of a finally block fires (1161-1163)
CooldownFires(k) ==
    /\ script.cooldowns[k] = 0
    /\ script' = [script EXCEPT !.isApplyingSync = FALSE,
                                !.cooldowns = RemoveAt(@, k)]
    /\ UNCHANGED <<popupVars, used, lim, syncVars>>

\* The timeout of setRemoteOrigin fires (251-253)
OriginFires(k) ==
    /\ script.origins[k] = 0
    /\ script' = [script EXCEPT !.eventOrigin = "LOCAL",
                                !.origins = RemoveAt(@, k)]
    /\ UNCHANGED <<popupVars, used, lim, syncVars>>

\* The timers of the script and of its adapter
ScriptTimers ==
    { script.cooldowns[k] : k \in 1..Len(script.cooldowns) }
    \cup { script.origins[k] : k \in 1..Len(script.origins) }

\* Time passes, one frame at most and never beyond a timer that is due
ScriptTick ==
    LET running == (SeekTimers \ {NoTimer}) \cup ScriptTimers \cup {SEEK_FRAME_MS}
        step == CHOOSE x \in running : \A y \in running : x <= y
        Later(x) == IF x = NoTimer THEN NoTimer ELSE x - step
    IN /\ 0 \notin running
       /\ now + step <= lim.time
       /\ now' = now + step
       /\ seeks' = [k \in 1..Len(seeks) |->
                       [seeks[k] EXCEPT !.interval = Later(@), !.timeout = Later(@)]]
       /\ script' = [script EXCEPT
                        !.cooldowns = [k \in 1..Len(@) |-> @[k] - step],
                        !.origins = [k \in 1..Len(@) |-> @[k] - step]]
       /\ UNCHANGED <<popupVars, used, lim, ctl, video, call>>

----------------------------------------------------------------------------
(* Specifications *)

\* The session of a freshly started service worker (753-771).  userName,
\* lastSuccessfulConnection, connectionId, currentUrl and currentPlatform
\* decide nothing that is modelled here and are left out.
InitSession ==
    [oderId |-> LocalId, socket |-> NoSocket, roomId |-> Null, isHost |-> FALSE,
     userCount |-> 0, users |-> <<>>, connected |-> FALSE,
     reconnectAttempts |-> 0, heartbeatInterval |-> NoTimer,
     canControl |-> TRUE, isReconnecting |-> FALSE, pendingMessages |-> <<>>]

InitWith(limits) ==
    /\ s = InitSession
    /\ socks = <<>>
    /\ recon = <<>>
    /\ ops = <<>>
    /\ lock = NoOperation
    /\ wire = <<>>
    /\ tasks = [stateRequests |-> 0, forceSyncs |-> 0]
    /\ failed = 0
    /\ resp = NoResponse
    /\ closes = 0
    /\ forwarded = <<>>
    /\ trail = <<>>
    /\ used = [cmds |-> 0, events |-> 0, pushes |-> 0, time |-> 0]
    /\ lim = limits
    /\ ctl = NewController
    /\ video = [playbackRate |-> RateOne, currentTime |-> 0]
    /\ seeks = <<>>
    /\ now = 0
    /\ call = NoCall
    /\ script = NewScript

Budget(nsocks, ncmds, nevents, nwire, npushes, clock, ntime) ==
    [socks |-> nsocks, cmds |-> ncmds, events |-> nevents, wire |-> nwire,
     pushes |-> npushes, clock |-> clock, time |-> ntime]

(* One instant: every command of the popup and of the content scripts,    *)
(* the sockets and the relay's answers, before any timer is due.           *)
Init ==
    InitWith(Budget(MaxSockets, MaxCommands, MaxPlayerEvents, MaxWire, 0, "stopped", 0))

Next ==
    \/ \E i \in 1..Len(socks) : SocketOpens(i)
    \/ \E i \in 1..Len(socks), code \in {CLOSE_NORMAL, CLOSE_ABNORMAL} : SocketCloses(i, code)
    \/ \E i \in 1..Len(socks), m \in UNION {Replies(wire[k].msg) : k \in 1..Len(wire)} :
          RelayAnswers(i, m)
    \/ \E k \in 1..Len(ops) : Poll(k)
    \/ \E k \in 1..Len(ops), fulfilled \in BOOLEAN : StorageSettles(k, fulfilled)
    \/ \E k \in 1..Len(ops) : DelayedJoinFires(k)
    \/ ConnectCommand
    \/ DisconnectCommand
    \/ CreateRoomCommand
    \/ \E r \in Rooms : JoinRoomCommand(r)
    \/ \E r \in Rooms : AutoJoinRoomCommand(r)
    \/ LeaveRoomCommand
    \/ PlayerEventCommand

Spec == Init /\ [][Next]_vars

(* The operation lock: lifecycle commands over the first seconds of a      *)
(* session, long enough for a lock to go stale.                            *)
InitLock ==
    InitWith(Budget(MaxLockSockets, MaxLockCommands, 0, MaxWire, 0, "bounded", MaxLockTime))

NextLock ==
    \/ \E i \in 1..Len(socks) : SocketOpens(i)
    \/ \E i \in 1..Len(socks), code \in {CLOSE_NORMAL, CLOSE_ABNORMAL} : SocketCloses(i, code)
    \/ \E k \in 1..Len(recon) : ReconnectFires(k)
    \/ \E i \in 1..Len(socks), m \in UNION {Replies(wire[k].msg) : k \in 1..Len(wire)} :
          RelayAnswers(i, m)
    \/ \E k \in 1..Len(ops) : Poll(k)
    \/ \E k \in 1..Len(ops) : OperationTimeoutFires(k)
    \/ \E k \in 1..Len(ops), fulfilled \in BOOLEAN : StorageSettles(k, fulfilled)
    \/ \E k \in 1..Len(ops) : DelayedJoinFires(k)
    \/ CreateRoomCommand
    \/ \E r \in Rooms : JoinRoomCommand(r)
    \/ \E r \in Rooms : AutoJoinRoomCommand(r)
    \/ Tick

SpecLock == InitLock /\ [][NextLock]_vars

(* A stale lock: create and join commands over a time long enough for the *)
(* lock of the first to go stale and for its connect timeout to run.       *)
InitStale ==
    InitWith(Budget(MaxStaleSockets, MaxStaleCommands, 0, 1, 0, "bounded", MaxStaleTime))

NextStale ==
    \/ \E i \in 1..Len(socks) : SocketOpens(i)
    \/ \E i \in 1..Len(socks) : SocketCloses(i, CLOSE_ABNORMAL)
    \/ \E i \in 1..Len(socks) : ConnectionTimeoutFires(i)
    \/ \E i \in 1..Len(socks), m \in UNION {Replies(wire[k].msg) : k \in 1..Len(wire)} :
          RelayAnswers(i, m)
    \/ \E k \in 1..Len(ops) : Poll(k)
    \/ \E k \in 1..Len(ops) : OperationTimeoutFires(k)
    \/ CreateRoomCommand
    \/ \E r \in Rooms : JoinRoomCommand(r)
    \/ Tick

SpecStale == InitStale /\ [][NextStale]_vars

(* An outage: one room is created, then the sockets fail and the client    *)
(* reconnects, for as long as it takes.                                    *)
InitOutage ==
    InitWith(Budget(MaxOutageSockets, 1, 0, 1, 0, "free", 0))

NextOutage ==
    \/ \E i \in 1..Len(socks) : SocketOpens(i)
    \/ \E i \in 1..Len(socks), code \in {CLOSE_NORMAL, CLOSE_ABNORMAL} : SocketCloses(i, code)
    \/ \E i \in 1..Len(socks) : ConnectionTimeoutFires(i)
    \/ \E k \in 1..Len(recon) : ReconnectFires(k)
    \/ HeartbeatFires
    \/ \E i \in 1..Len(socks), m \in UNION {Replies(wire[k].msg) : k \in 1..Len(wire)} :
          RelayAnswers(i, m)
    \/ \E k \in 1..Len(ops) : Poll(k)
    \/ \E k \in 1..Len(ops) : OperationTimeoutFires(k)
    \/ CreateRoomCommand
    \/ Tick

SpecOutage == InitOutage /\ [][NextOutage]_vars

(* A disconnect during an outage: a room is created, the sockets fail and *)
(* come back, and the popup disconnects at any moment.                     *)
InitDisconnect ==
    InitWith(Budget(MaxDisconnectSockets, 2, 0, 1, 0, "free", 0))

NextDisconnect ==
    \/ NextOutage
    \/ DisconnectCommand

SpecDisconnect == InitDisconnect /\ [][NextDisconnect]_vars

(* Traffic during an outage: player events and state requests of the relay *)
(* while the sockets fail and come back.                                   *)
InitTraffic ==
    InitWith(Budget(MaxTrafficSockets, 1, MaxPlayerEvents, MaxWire, MaxPushes, "free", 0))

NextTraffic ==
    \/ NextOutage
    \/ \E i \in 1..Len(socks), m \in Pushes : RelayPushes(i, m)
    \/ \E success \in BOOLEAN : TabAnswers(success)
    \/ PlayerEventCommand

SpecTraffic == InitTraffic /\ [][NextTraffic]_vars

(* Messages of every kind while the sockets of a room fail: the host's   *)
(* commands, player events and the answers to state requests.              *)
InitKinds ==
    InitWith(Budget(MaxKindSockets, MaxKindCommands, 1, MaxKindWire, 1, "stopped", 0))

NextKinds ==
    \/ \E i \in 1..Len(socks) : SocketOpens(i)
    \/ \E i \in 1..Len(socks), code \in {CLOSE_NORMAL, CLOSE_ABNORMAL} : SocketCloses(i, code)
    \/ \E i \in 1..Len(socks), m \in UNION {Replies(wire[k].msg) : k \in 1..Len(wire)} :
          RelayAnswers(i, m)
    \/ \E i \in 1..Len(socks), m \in Pushes : RelayPushes(i, m)
    \/ \E success \in BOOLEAN : TabAnswers(success)
    \/ \E k \in 1..Len(ops) : Poll(k)
    \/ CreateRoomCommand
    \/ KickUserCommand
    \/ \E c \in BOOLEAN : SetPermissionCommand(c)
    \/ SetNameCommand
    \/ GetUsersCommand
    \/ PlayerEventCommand

SpecKinds == InitKinds /\ [][NextKinds]_vars

(* A burst of player events while the socket of a room is down *)
InitQueue ==
    InitWith(Budget(MaxQueueSockets, 1, MaxBurst, 1, 0, "stopped", 0))

NextQueue ==
    \/ \E i \in 1..Len(socks) : SocketOpens(i)
    \/ \E i \in 1..Len(socks), code \in {CLOSE_NORMAL, CLOSE_ABNORMAL} : SocketCloses(i, code)
    \/ \E i \in 1..Len(socks), m \in UNION {Replies(wire[k].msg) : k \in 1..Len(wire)} :
          RelayAnswers(i, m)
    \/ \E k \in 1..Len(ops) : Poll(k)
    \/ CreateRoomCommand
    \/ PlayerEventCommand

SpecQueue == InitQueue /\ [][NextQueue]_vars

(* A room: one participant's player, navigation and force-sync commands,   *)
(* and what the relay sends it, in one instant.                            *)
InitRoom ==
    InitWith(Budget(MaxRoomSockets, MaxRoomCommands, MaxRoomEvents, MaxRoomWire,
                    MaxRoomPushes, "stopped", 0))

NextRoom ==
    \/ \E i \in 1..Len(socks) : SocketOpens(i)
    \/ \E i \in 1..Len(socks), code \in {CLOSE_NORMAL, CLOSE_ABNORMAL} : SocketCloses(i, code)
    \/ \E i \in 1..Len(socks), m \in UNION {Replies(wire[k].msg) : k \in 1..Len(wire)} :
          RelayAnswers(i, m)
    \/ \E i \in 1..Len(socks), type \in PushTypes : \E m \in RoomPushes(type) :
          RelayPushes(i, m)
    \/ \E k \in 1..Len(ops) : Poll(k)
    \/ \E outcome \in TabOutcomes : ForceSyncSettles(outcome)
    \/ CreateRoomCommand
    \/ \E r \in Rooms : JoinRoomCommand(r)
    \/ PlayerEventCommand
    \/ NavigationEventCommand
    \/ ForceSyncCommand

SpecRoom == InitRoom /\ [][NextRoom]_vars

(* Membership of a room: the client creates and joins rooms on one socket *)
(* while the relay sends member lists.                                    *)
InitMembers ==
    InitWith(Budget(1, MaxMemberCommands, 0, MaxMemberWire, MaxMemberPushes,
                    "stopped", 0))

NextMembers ==
    \/ \E i \in 1..Len(socks) : SocketOpens(i)
    \/ \E i \in 1..Len(socks), m \in UNION {Replies(wire[k].msg) : k \in 1..Len(wire)} :
          RelayAnswers(i, m)
    \/ \E i \in 1..Len(socks), type \in MemberTypes : \E m \in MemberPushes(type) :
          RelayPushesMembers(i, m)
    \/ \E k \in 1..Len(ops) : Poll(k)
    \/ \E success \in BOOLEAN : TabAnswers(success)
    \/ CreateRoomCommand
    \/ \E r \in Rooms : JoinRoomCommand(r)

SpecMembers == InitMembers /\ [][NextMembers]_vars

(* Malformed payloads: the membership scenario with a relay that also      *)
(* sends data that does not parse and payloads that lack members.          *)
NextMalformed ==
    \/ NextMembers
    \/ \E i \in 1..Len(socks) : RelayPushesGarbage(i)
    \/ \E i \in 1..Len(socks), m \in MalformedMsgs : RelayPushes(i, m)

SpecMalformed == InitMembers /\ [][NextMalformed]_vars

(* Drift classification: one call of calculateSyncAction with a local     *)
(* position and every target within MaxDriftMs of it.                      *)
InitDrift == InitWith(Budget(0, 1, 0, 0, 0, "stopped", 0))

NextDrift ==
    /\ used.cmds < lim.cmds
    /\ \E targetTime \in (LocalMs - MaxDriftMs)..(LocalMs + MaxDriftMs), isPlaying \in BOOLEAN :
          CalculateSyncActionCall(LocalMs, targetTime, isPlaying)

SpecDrift == InitDrift /\ [][NextDrift]_vars

(* Latency: a few calls of calculateLatency and compensateForLatency on    *)
(* one controller, with events whose timestamps are up to MaxSkewMs ahead  *)
(* of the local clock and up to MaxLatencyMs behind it.                    *)
InitLatency == InitWith(Budget(0, MaxLatencyCalls, 0, 0, 0, "stopped", 0))

Latencies ==
    { -MaxSkewMs, CLOCK_AHEAD_MS - 1, CLOCK_AHEAD_MS, 0,
      minLatencyCompensation - 1, minLatencyCompensation, BASELINE_LATENCY_MS,
      maxLatencyCompensation, maxLatencyCompensation + 1, MaxLatencyMs }

NextLatency ==
    \/ \E latency \in Latencies : CalculateLatencyCall(DateNow - latency)
    \/ \E latency \in Latencies, isPlaying \in BOOLEAN :
          CompensateForLatencyCall(LocalMs, DateNow - latency, isPlaying)

SpecLatency == InitLatency /\ [][NextLatency]_vars

(* The clock offset: calls of calculateLatency with events from a clock   *)
(* that is ahead of the local one, a little or by MaxSkewMs, and events    *)
(* that took MaxLatencyMs, enough of them to fill the window of samples    *)
(* and push the first ones out.                                            *)
InitClock == InitWith(Budget(0, MaxClockCalls, 0, 0, 0, "stopped", 0))

SkewedLatencies == {-MaxSkewMs, CLOCK_AHEAD_MS - 1, MaxLatencyMs}

NextClock ==
    /\ used.cmds < lim.cmds
    /\ \E latency \in SkewedLatencies : CalculateLatencyCall(DateNow - latency)

SpecClock == InitClock /\ [][NextClock]_vars

(* The two windows: a run of calls long enough to fill the window of       *)
(* latencies and push its first entries out.  The first and the last calls *)
(* take any of the skewed latencies; the calls between them are slow       *)
(* events, each slower than the one before, so that every call leaves a    *)
(* different observation in both windows.                                  *)
InitWindows == InitWith(Budget(0, MaxWindowCalls, 0, 0, 0, "stopped", 0))

WindowLatencies(n) ==
    IF n < FreeWindowCalls \/ n >= MaxWindowCalls - FreeWindowCalls
    THEN SkewedLatencies
    ELSE {MaxLatencyMs + n}

NextWindows ==
    \/ /\ used.cmds < lim.cmds
       /\ \E latency \in WindowLatencies(used.cmds) :
             CalculateLatencyCall(DateNow - latency)
    \/ /\ used.cmds < lim.cmds
       /\ \E latency \in WindowLatencies(used.cmds) :
             CompensateForLatencyCall(LocalMs, DateNow - latency, TRUE)

SpecWindows == InitWindows /\ [][NextWindows]_vars

(* Speed adjustment: the rates calculateSyncAction asks for are applied    *)
(* and reset, while the page sets rates of its own.                        *)
InitSpeed == InitWith(Budget(0, MaxSpeedCalls, 0, 0, 0, "stopped", 0))

AdjustRates == {minPlaybackRate, MIN_MICRO_RATE, MAX_MICRO_RATE, maxPlaybackRate}

PageRates == {RateOne \div 2, RateOne, 2 * RateOne}

NextSpeed ==
    \/ \E rate \in AdjustRates : ApplySpeedAdjustmentCall(rate)
    \/ ResetSpeedCall
    \/ SpeedResetFires
    \/ \E rate \in PageRates : PageSetsRate(rate)

SpecSpeed == InitSpeed /\ [][NextSpeed]_vars

(* The reset timeout: speed adjustments as time passes, with the calls     *)
(* that end an adjustment by hand.                                         *)
InitSpeedTimer == InitWith(Budget(0, MaxTimerCalls, 0, 0, 0, "stopped", MaxTimerMs))

TimerSteps == {SPEED_RESET_MS \div 4, SPEED_RESET_MS \div 2, SPEED_RESET_MS}

NextSpeedTimer ==
    \/ \E rate \in {MIN_MICRO_RATE, maxPlaybackRate} : ApplySpeedAdjustmentCall(rate)
    \/ ResetSpeedCall
    \/ DestroyCall
    \/ ResetCall
    \/ SpeedResetDue
    \/ \E step \in TimerSteps : SpeedTick(step)
    \/ \E rate \in PageRates : PageSetsRate(rate)

SpecSpeedTimer == InitSpeedTimer /\ [][NextSpeedTimer]_vars

(* Smooth seeks: seeks as the adapters start them, one while another may  *)
(* still run, their intervals and safety timeouts.  The video moves by     *)
(* the seeks alone.                                                         *)
InitSeek == InitWith(Budget(0, MaxSeekCalls, 0, 0, 0, "stopped", 0))

SeekTargets == {2 * 1000, 3 * 1000}

SeekDurations == {QUICK_SEEK_MS, MAX_SEEK_DURATION_MS}

NextSeek ==
    \/ \E targetTime \in SeekTargets, duration \in SeekDurations :
          SmoothSeekCall(targetTime, duration)
    \/ \E k \in 1..Len(seeks) : IntervalFires(k)
    \/ \E k \in 1..Len(seeks) : IntervalSkipped(k)
    \/ \E k \in 1..Len(seeks) : SafetyFires(k)
    \/ SeekTick

SpecSeek == InitSeek /\ [][NextSeek]_vars

(* Smooth seeks to their end: quick seeks, destroy() and reset(), with     *)
(* every timer that is due run and time never held back.                   *)
NextSeekLive ==
    \/ \E targetTime \in SeekTargets : SmoothSeekCall(targetTime, QUICK_SEEK_MS)
    \/ DestroyCall
    \/ ResetCall
    \/ \E k \in 1..Len(seeks) : IntervalFires(k)
    \/ \E k \in 1..Len(seeks) : SafetyFires(k)
    \/ SeekTick

TimerRuns == \E k \in 1..Len(seeks) : IntervalFires(k) \/ SafetyFires(k)

SpecSeekLive ==
    InitSeek /\ [][NextSeekLive]_vars /\ WF_vars(TimerRuns) /\ WF_vars(SeekTick)

(* A content script on a paused video: remote SEEK events arrive at any    *)
(* moment, and every timer runs when it is due.                            *)
InitScript == InitWith(Budget(0, 0, MaxScriptEvents, 0, 0, "stopped", MaxScriptMs))

ScriptTargets == {SMOOTH_SEEK_DRIFT_MS, 2 * 1000}

NextScript ==
    \/ \E time \in ScriptTargets : SyncEventArrives(time)
    \/ \E k \in 1..Len(seeks) : ScriptIntervalFires(k)
    \/ \E k \in 1..Len(seeks) : ScriptSafetyFires(k)
    \/ \E k \in 1..Len(script.cooldowns) : CooldownFires(k)
    \/ \E k \in 1..Len(script.origins) : OriginFires(k)
    \/ ScriptTick

SpecScript == InitScript /\ [][NextScript]_vars

----------------------------------------------------------------------------
(* Properties *)

Codes == {CLOSE_NORMAL, CLOSE_ABNORMAL}

\* C1: while in a room, the k-th unclean close in a row (no socket opened
\* in between) schedules the next connect after 3s, 6s, 12s, 24s, 30s for
\* k = 1..5, and the attempt counter never exceeds 5.
C1_BackoffSchedule ==
    /\ [][\A i \in 1..Len(socks), code \in Codes :
            (SocketCloses(i, code) /\ Unclean(code) /\ closes' <= MAX_RECONNECT_ATTEMPTS)
               => recon' = Append(recon, ReconnectDelay(closes'))]_vars
    /\ [](s.reconnectAttempts <= MAX_RECONNECT_ATTEMPTS)

\* An unclean close in a room that finds the attempts used up
ExhaustionStep ==
    \E i \in 1..Len(socks), code \in Codes :
       SocketCloses(i, code) /\ Unclean(code)
          /\ s.reconnectAttempts >= MAX_RECONNECT_ATTEMPTS

\* Something is still under way that ends in a socket open or close event
AttemptUnderWay ==
    \/ recon # <<>>
    \/ \E i \in 1..Len(socks) : socks[i].rs # "CLOSED"

\* C2: when the reconnect attempts are exhausted in a room the room state
\* is cleared and 'failed' is emitted once, at that step and at no other;
\* and a session in a room with its attempts used up, however they were used
\* up (close events or connect timeouts), is still heading for that step.
C2_ExhaustionClearsRoomOnce ==
    /\ [][ExhaustionStep => RoomCleared(s') /\ failed' = failed + 1]_vars
    /\ [][failed' # failed => ExhaustionStep]_vars
    /\ [](s.roomId # Null /\ s.reconnectAttempts >= MAX_RECONNECT_ATTEMPTS
             => AttemptUnderWay)

C2_Exhausted ==
    /\ failed = 1
    /\ RoomCleared(s)
    /\ s.reconnectAttempts = MAX_RECONNECT_ATTEMPTS

\* C3: a socket that opens while a reconnect is in progress and the room id
\* is set sends JOIN_ROOM for that room.
C3_RejoinOnReconnect ==
    [][\A i \in 1..Len(socks) :
          (SocketOpens(i) /\ s.roomId # Null /\ s.isReconnecting)
             => \E k \in 1..Len(wire') :
                   /\ wire'[k].msg = Msg("JOIN_ROOM", s.roomId, s.oderId, Null)
                   /\ k > Len(wire)]_vars

\* Messages ms as socket j carries them
SentOn(j, ms) == [k \in 1..Len(ms) |-> [sock |-> j, msg |-> ms[k]]]

\* C4: when a socket opens, the messages of the pending queue go out to the
\* relay in the order they were queued, and the queue is empty afterwards.
C4_FlushOnOpen ==
    [][\A i \in 1..Len(socks) :
          SocketOpens(i)
             => /\ s'.pendingMessages = <<>>
                /\ Len(wire') >= Len(wire) + Len(s.pendingMessages)
                /\ \E j \in 1..Len(socks) :
                      SubSeq(wire', Len(wire) + 1, Len(wire) + Len(s.pendingMessages))
                         = SentOn(j, s.pendingMessages)]_vars

\* A player event that sendMessage puts on the queue
EventQueued ==
    /\ PlayerEventCommand
    /\ s.roomId # Null /\ s.canControl
    /\ ReadyState(World) # "OPEN"
    /\ s.isReconnecting \/ ~s.connected

\* C5: the pending queue never holds more than 50 messages, and queueing
\* onto a full queue drops the oldest entry and keeps the newest.
C5_QueueBounded ==
    /\ [](Len(s.pendingMessages) <= MAX_PENDING_MESSAGES)
    /\ [][EventQueued /\ Len(s.pendingMessages) = MAX_PENDING_MESSAGES
            => s'.pendingMessages =
                  Append(Tail(s.pendingMessages),
                         Msg("SYNC_EVENT", s.roomId, s.oderId, used.events + 1))]_vars

C5_Overflowed ==
    /\ Len(s.pendingMessages) = MAX_PENDING_MESSAGES
    /\ used.events > MAX_PENDING_MESSAGES
    /\ Head(s.pendingMessages).data = used.events - (MAX_PENDING_MESSAGES - 1)
    /\ s.pendingMessages[MAX_PENDING_MESSAGES].data = used.events
    /\ s.isReconnecting

\* C6: the pending queue never holds a HEARTBEAT or a STATE_RESPONSE.
C6_NoTransientQueued ==
    \A k \in 1..Len(s.pendingMessages) :
       s.pendingMessages[k].type \notin {"HEARTBEAT", "STATE_RESPONSE"}

\* A state response is about to be sent while the client is reconnecting
\* and a durable message waits in the queue
C6_ResponseWhileReconnecting ==
    /\ tasks.stateRequests > 0
    /\ s.roomId # Null
    /\ s.isReconnecting
    /\ ReadyState(World) # "OPEN"
    /\ s.pendingMessages # <<>>

\* C7: a close with code 1000, or with no room active, schedules no
\* reconnect and leaves the attempt counter alone.
C7_NoReconnectAfterCleanClose ==
    [][\A i \in 1..Len(socks), code \in Codes :
          (SocketCloses(i, code) /\ (code = CLOSE_NORMAL \/ s.roomId = Null))
             => /\ recon' = recon
                /\ s'.reconnectAttempts = s.reconnectAttempts
                /\ s'.isReconnecting = s.isReconnecting]_vars

\* Every socket has closed, the last of them cleanly while in a room
C7_CleanCloseInRoom ==
    /\ s.roomId # Null
    /\ socks # <<>>
    /\ \A i \in 1..Len(socks) : socks[i].rs = "CLOSED"
    /\ recon = <<>>
    /\ s.reconnectAttempts = 0

\* Durable messages a caller may hand to sendMessage
DurableMessages ==
    { Msg("CREATE_ROOM", Null, s.oderId, Null) }
    \cup { Msg("JOIN_ROOM", r, s.oderId, Null) : r \in Rooms }

\* C8: in every state where the channel is not open, sendMessage of a
\* durable message queues it, with a reconnect scheduled or a connection
\* attempt started.
C8_DurableNeverDropped ==
    \A m \in DurableMessages :
       ReadyState(World) # "OPEN"
          => LET w == SendMessage(World, m)
             IN /\ \E k \in 1..Len(w.s.pendingMessages) : w.s.pendingMessages[k] = m
                /\ s.isReconnecting \/ ReadyState(w) = "CONNECTING"

\* Operations a caller may hand to acquireRoomLock
Operations ==
    { Operation("CREATE_ROOM", Null, NextSeq) }
    \cup { Operation("JOIN_ROOM", r, NextSeq) : r \in Rooms }

\* C9: acquireRoomLock fails and leaves the held operation alone while a
\* lock younger than 5s is held; with no lock, or a lock older than 5s, it
\* installs the new operation and succeeds.
C9_AcquireRoomLock ==
    \A op \in Operations :
       LET w == AcquireRoomLock(World, op)
       IN /\ (lock.type # Null /\ lock.age < LOCK_STALE_MS)
                => ~CanAcquire(lock) /\ w.lock = lock
          /\ (lock.type = Null \/ lock.age > LOCK_STALE_MS)
                => CanAcquire(lock) /\ w.lock = op

\* The second command took over the lock of the first, which still waits
\* for its connection
C9_StaleLockReplaced ==
    /\ lock.seq = 2
    /\ \E k \in 1..Len(ops) : ops[k].seq = 1 /\ ops[k].poll

\* A create, join or auto-join command
LifecycleCommand ==
    \/ CreateRoomCommand
    \/ \E r \in Rooms : JoinRoomCommand(r)
    \/ \E r \in Rooms : AutoJoinRoomCommand(r)

\* C10: while the lock of an accepted join is held and not stale, a create,
\* join or auto-join command is rejected with the operation-in-progress
\* error and sends nothing; handling ROOM_JOINED frees the lock, and a
\* lifecycle command that finds the lock free is accepted.
C10_LockSerialises ==
    /\ [][(LifecycleCommand /\ lock.type = "JOIN_ROOM" /\ ~LockIsStale(lock))
            => /\ ~resp'.success /\ resp'.error = InProgressText
               /\ wire' = wire /\ socks' = socks /\ lock' = lock /\ s' = s]_vars
    /\ [][\A i \in 1..Len(socks), m \in UNION {Replies(wire[k].msg) : k \in 1..Len(wire)} :
            (RelayAnswers(i, m) /\ m.type = "ROOM_JOINED") => lock' = NoOperation]_vars
    /\ [][(LifecycleCommand /\ lock = NoOperation)
            => resp'.success]_vars

\* A command was rejected while the reply to an accepted join is pending
C10_RejectedWhileJoining ==
    /\ ~resp.success /\ resp.error = InProgressText
    /\ lock.type = "JOIN_ROOM"
    /\ \E k \in 1..Len(wire) : wire[k].msg.type = "JOIN_ROOM"

\* The request of the operation that holds lock lk
OwnRequest(m, lk) ==
    \/ lk.type = "CREATE_ROOM" /\ m.type = "CREATE_ROOM"
    \/ lk.type = "JOIN_ROOM" /\ m.type = "JOIN_ROOM" /\ m.roomId = lk.roomId

\* The request of the lock's operation is with the relay, unanswered
RequestOutstanding == \E k \in 1..Len(wire) : OwnRequest(wire[k].msg, lock)

\* The relay answers the request of the lock's operation
OwnReply ==
    \E i \in 1..Len(socks), m \in UNION {Replies(wire[k].msg) : k \in 1..Len(wire)} :
       /\ RelayAnswers(i, m)
       /\ OwnRequest(wire[FirstOn(i, wire)].msg, lock)

\* The timeout of the lock's own operation fires
OwnTimeout ==
    \E k \in 1..Len(ops) : ops[k].seq = lock.seq /\ OperationTimeoutFires(k)

\* C11: while the request of the operation holding the lock is outstanding,
\* a step that frees the lock is the relay's reply to that request or the
\* timeout of that operation.
C11_ReleasedByOwnReply ==
    [][(RequestOutstanding /\ lock' = NoOperation) => OwnReply \/ OwnTimeout]_vars

\* The ERROR messages the relay sends, as replies or unasked
RelayErrors ==
    RoomPushes("ERROR")
    \cup { ErrorMsg("SERVER_ERROR", "failed"), ErrorMsg("ROOM_NOT_FOUND", "does not exist") }

\* onmessage runs handleServerMessage on m
Handled(m) == \E i \in 1..Len(socks) : RelayPushes(i, m) \/ RelayAnswers(i, m)

\* C12: handling an ERROR of the relay leaves the lock free; the room id,
\* host flag, user count and member list are cleared if its code is
\* ROOM_NOT_FOUND or its text has 'does not exist', and kept otherwise.
C12_ErrorHandling ==
    [][\A m \in RelayErrors :
          Handled(m)
             => /\ lock' = NoOperation
                /\ IF m.code = "ROOM_NOT_FOUND" \/ m.text = "does not exist"
                   THEN RoomCleared(s')
                   ELSE /\ s'.roomId = s.roomId
                        /\ s'.isHost = s.isHost
                        /\ s'.userCount = s.userCount
                        /\ s'.users = s.users]_vars

\* An error that is not about a missing room was handled in a room
C12_OtherErrorInRoom ==
    /\ Len(forwarded) = 1
    /\ forwarded[1].type = "ERROR"
    /\ forwarded[1].payload.code = "NOT_AUTHORIZED"
    /\ s.roomId # Null

\* The SYNC_EVENT and NAVIGATE messages the relay passes on
RelayedEvents == RoomPushes("SYNC_EVENT") \cup RoomPushes("NAVIGATE")

\* What the tabs are handed for a relayed event
Applied(m) ==
    [type |-> IF m.type = "SYNC_EVENT" THEN "APPLY_SYNC" ELSE "NAVIGATE",
     payload |-> m.data]

\* C13: a SYNC_EVENT or NAVIGATE of the relay that carries the local
\* participant id hands nothing to the tabs; one that carries another id is
\* handed to them as APPLY_SYNC or NAVIGATE.
C13_OwnEventsNotForwarded ==
    [][\A m \in RelayedEvents :
          (\E i \in 1..Len(socks) : RelayPushes(i, m))
             => forwarded' = IF m.oderId = s.oderId THEN <<>> ELSE <<Applied(m)>>]_vars

\* The event of another participant reached the tabs of a client in a room
C13_PeerEventForwarded ==
    /\ Len(forwarded) = 1
    /\ forwarded[1].type = "APPLY_SYNC"
    /\ s.roomId # Null

\* How many SYNC_EVENT and NAVIGATE messages are queued, and are on the wire
EventsQueued(ss) ==
    Cardinality({ k \in 1..Len(ss.pendingMessages) :
                     ss.pendingMessages[k].type \in {"SYNC_EVENT", "NAVIGATE"} })

EventsSent(wr) ==
    Cardinality({ k \in 1..Len(wr) : wr[k].msg.type \in {"SYNC_EVENT", "NAVIGATE"} })

\* A step of a player event, a navigation event or a force sync: the
\* command, or the part of forceSync that runs once the tabs have answered
EventCommandStep ==
    \/ PlayerEventCommand
    \/ NavigationEventCommand
    \/ ForceSyncCommand
    \/ \E outcome \in TabOutcomes : ForceSyncSettles(outcome)

\* C14: while canControl is false, a step of a player event, a navigation
\* event or a force sync neither sends nor queues a SYNC_EVENT or NAVIGATE.
C14_NoEventsWithoutControl ==
    [][(EventCommandStep /\ ~s.canControl)
          => EventsSent(wire') = EventsSent(wire) /\ EventsQueued(s') = EventsQueued(s)]_vars

\* C14, for the commands alone: one that arrives in a room while canControl
\* is false is answered with the no-permission error and changes nothing.
C14_CommandsRejected ==
    [][((PlayerEventCommand \/ NavigationEventCommand \/ ForceSyncCommand)
           /\ ~s.canControl /\ s.roomId # Null)
          => /\ ~resp'.success /\ resp'.error = "No control permission"
             /\ wire' = wire /\ s' = s /\ tasks' = tasks]_vars

\* The drift of the latest calculateSyncAction call, in ms
DriftMs == Abs(call.targetTime - call.currentTime)

SyncActionReturned == call.op = "calculateSyncAction"

\* C15 as stated: with a playing target, none below 30ms, adjust_speed from
\* 30ms to below 1500ms, smooth_seek (same target, at most 400ms) from
\* 1500ms to below 5000ms, hard_seek (same target) from 5000ms on; none
\* whenever the target is not playing.
C15_DriftClassification ==
    SyncActionReturned =>
       LET d == DriftMs
           r == call.result
       IN IF ~call.isPlaying \/ d < 30 THEN r.type = "none"
          ELSE IF d < 1500 THEN r.type = "adjust_speed"
          ELSE IF d < 5000
          THEN /\ r.type = "smooth_seek"
               /\ r.targetTime = call.targetTime
               /\ r.duration <= 4 * 400
          ELSE r.type = "hard_seek" /\ r.targetTime = call.targetTime

\* C15 amended: the bounds 1500ms and 5000ms belong to the lower class:
\* adjust_speed from 30ms to 1500ms, smooth_seek above 1500ms to 5000ms,
\* hard_seek above 5000ms.
C15_DriftClassificationAmended ==
    SyncActionReturned =>
       LET d == DriftMs
           r == call.result
       IN IF ~call.isPlaying \/ d < 30 THEN r.type = "none"
          ELSE IF d <= 1500 THEN r.type = "adjust_speed"
          ELSE IF d <= 5000
          THEN /\ r.type = "smooth_seek"
               /\ r.targetTime = call.targetTime
               /\ r.duration <= 4 * 400
          ELSE r.type = "hard_seek" /\ r.targetTime = call.targetTime

\* A drift of exactly 5000ms was classified
C15_AtLargeThreshold ==
    SyncActionReturned /\ call.isPlaying /\ DriftMs = 5000

\* C16: an adjust_speed rate is above 1 when the local position is behind
\* the target and below 1 when it is ahead; it is within 0.05 of 1 for
\* drifts from 30ms to below 300ms, and within [minPlaybackRate,
\* maxPlaybackRate] for drifts from 300ms to below 1500ms.
C16_RateSignAndRange ==
    (SyncActionReturned /\ call.result.type = "adjust_speed") =>
       LET d == DriftMs
           rate == call.result.rate
       IN /\ call.targetTime > call.currentTime => rate > RateOne
          /\ call.targetTime < call.currentTime => rate < RateOne
          /\ (30 <= d /\ d < 300) => 20 * Abs(rate - RateOne) <= RateOne
          /\ (300 <= d /\ d < 1500) => minPlaybackRate <= rate /\ rate <= maxPlaybackRate

\* A drift of one second ahead of the target was answered by the lowest rate
C16_SlowedToMinimum ==
    /\ SyncActionReturned
    /\ call.currentTime - call.targetTime = 1000
    /\ call.result.type = "adjust_speed"
    /\ call.result.rate = minPlaybackRate

\* The raw latency of the latest compensateForLatency call: now - ts
RawLatency == DateNow - call.eventTimestamp

LatencyCompensated == call.op = "compensateForLatency"

\* C17: compensateForLatency with playing = false returns the target time
\* it was given, whatever the timestamp and the state of the controller.
C17_PausedNotCompensated ==
    (LatencyCompensated /\ ~call.isPlaying) => call.result = call.targetTime

\* A paused target came with a latency worth compensating, to a controller
\* that has a clock offset
C17_PausedWithLatency ==
    /\ LatencyCompensated /\ ~call.isPlaying
    /\ RawLatency = 200
    /\ call.clockOffset # 0

\* C18 as stated: with playing = true, a latency L from the minimum to the
\* maximum threshold is added to the target time, and a latency below the
\* minimum leaves it unchanged, whatever calls came before.
C18_LatencyAdded ==
    (LatencyCompensated /\ call.isPlaying) =>
       /\ (10 <= RawLatency /\ RawLatency <= 2000)
             => call.result = call.targetTime + RawLatency
       /\ RawLatency < 10 => call.result = call.targetTime

\* C18 amended: what is added is the latency less the clock offset the
\* earlier calls have estimated, cut to [0, maximum], if that is at least
\* the minimum; so the claim holds as stated while the clock offset is 0.
C18_AdjustedLatencyAdded ==
    (LatencyCompensated /\ call.isPlaying) =>
       LET A == RawLatency - call.clockOffset
           cut == IF A < 0 THEN 0 ELSE IF A > 2000 THEN 2000 ELSE A
       IN /\ (10 <= RawLatency /\ RawLatency <= 2000)
                => call.result = IF cut >= 10 THEN call.targetTime + cut
                                 ELSE call.targetTime
          /\ call.clockOffset = 0
                => /\ (10 <= RawLatency /\ RawLatency <= 2000)
                         => call.result = call.targetTime + RawLatency
                   /\ RawLatency < 10 => call.result = call.targetTime

\* A latency of 200ms met a controller whose clock offset is not 0
C18_LatencyWithClockOffset ==
    /\ LatencyCompensated /\ call.isPlaying
    /\ RawLatency = 200
    /\ call.clockOffset # 0

\* resetSpeed runs, called or by its timeout
SpeedReset == ResetSpeedCall \/ SpeedResetFires

\* C20: when resetSpeed runs after the applySpeedAdjustment calls of an
\* episode, called or by the timeout, the video gets back the rate it had
\* before the first of them and the controller is no longer adjusting.
C20_OriginalRateRestored ==
    [][(SpeedReset /\ call.inEpisode)
          => video'.playbackRate = call.before /\ ~ctl'.isAdjustingSpeed]_vars

\* An episode of two adjustments of a video that played at double rate was
\* ended by the timeout
C20_RestoredAfterTwo ==
    /\ call.op = "speedResetTimeout"
    /\ call.before = 2 * RateOne
    /\ call.adjustments = 2
    /\ video.playbackRate = 2 * RateOne

\* The safety timeout of seek k has had its time: duration + 100ms are over
DeadlinePassed(k) == seeks[k].timeout = NoTimer

\* C19: once the duration of a smooth seek and the safety margin of 100ms
\* are over, the video is at the target of the seek, whether its interval
\* ran or not (as long as no later seek has moved the video on).
C19_SeekReachesTarget ==
    (Len(seeks) > 0 /\ DeadlinePassed(Len(seeks)))
       => video.currentTime = seeks[Len(seeks)].targetTime

\* C19, for a seek on its own: if no other seek is started while it runs,
\* the video is at its target once its deadline has passed.
C19_LoneSeekReachesTarget ==
    (Len(seeks) = 1 /\ DeadlinePassed(1)) => video.currentTime = seeks[1].targetTime

\* The clock offset samples a call of calculateLatency can add: the raw
\* latencies of SpecClock, as they are or less the baseline
ClockSamples ==
    SkewedLatencies \cup {latency - BASELINE_LATENCY_MS : latency \in SkewedLatencies}

\* m is a median of the samples: one of them, with at least half of them
\* at or below it and at least half of them at or above it
IsMedian(m, samples) ==
    LET n == Len(samples)
        atMost == Cardinality({k \in 1..n : samples[k] <= m})
        atLeast == Cardinality({k \in 1..n : samples[k] >= m})
    IN /\ \E k \in 1..n : samples[k] = m
       /\ 2 * atMost >= n
       /\ 2 * atLeast >= n

\* The last (at most) limit elements of a sequence
LastOf(samples, limit) ==
    SubSeq(samples, Max(1, Len(samples) - limit + 1), Len(samples))

\* C21: the window of clock offset samples holds the last samples, ten at
\* most; whenever it is not empty the clock offset is a median of it; so a
\* window of identical samples (any number of them after an empty window,
\* ten of them after any window) makes the clock offset that sample.
C21_OffsetIsWindowMedian ==
    /\ [](Len(ctl.clockOffsetSamples) <= maxClockSamples)
    /\ [](ctl.clockOffsetSamples # <<>>
            => IsMedian(ctl.clockOffset, ctl.clockOffsetSamples))
    /\ [](\A x \in ClockSamples :
            (/\ ctl.clockOffsetSamples # <<>>
             /\ \A k \in 1..Len(ctl.clockOffsetSamples) : ctl.clockOffsetSamples[k] = x)
            => ctl.clockOffset = x)
    /\ [][ctl.clockOffsetSamples' # ctl.clockOffsetSamples
            => \E sample \in ClockSamples :
                  ctl.clockOffsetSamples' =
                      LastOf(Append(ctl.clockOffsetSamples, sample), maxClockSamples)]_vars

\* C21 happens: after two samples of a clock that is ahead, ten identical
\* samples of a slow network fill the window and are the clock offset
C21_TenIdenticalSamples ==
    /\ Len(ctl.latencySamples) = 12
    /\ ctl.latencySamples[1] = 0
    /\ ctl.latencySamples[2] = 0
    /\ Len(ctl.clockOffsetSamples) = maxClockSamples
    /\ \A k \in 1..maxClockSamples :
          ctl.clockOffsetSamples[k] = MaxLatencyMs - BASELINE_LATENCY_MS
    /\ ctl.clockOffset = MaxLatencyMs - BASELINE_LATENCY_MS

\* The popup's latest command was DISCONNECT: the disconnect was intended
\* and nothing has asked for a connection since
Disconnected == resp.cmd = "DISCONNECT"

\* C22: after an intentional disconnect the heartbeat sends nothing and a
\* reconnect timer that fires creates no socket; while the session is
\* connected (a socket has opened and no close or failure has scheduled a
\* reconnect since) a reconnect timer that fires creates no socket.
C22_TimersCancelled ==
    [][/\ (HeartbeatFires /\ Disconnected) => wire' = wire
       /\ \A k \in 1..Len(recon) :
             (ReconnectFires(k) /\ (Disconnected \/ s.connected)) => socks' = socks]_vars

\* The sockets that are connecting or open
LiveSockets(ss) == {i \in 1..Len(ss) : ss[i].rs \in {"CONNECTING", "OPEN"}}

\* C23: a socket is created only when no socket is connecting or open, so
\* at most one socket is connecting or open at any time.
C23_AtMostOneSocket ==
    /\ [][Len(socks') > Len(socks) => LiveSockets(socks) = {}]_vars
    /\ [](Cardinality(LiveSockets(socks)) <= 1)

\* The connect attempt of socket i has timed out and been closed by the
\* timeout, and its close event is still to come
TimedOut(i) == socks[i].rs = "CLOSING" /\ socks[i].lc = "abort"

\* C24: in a room with attempts left, the timeout of the connect attempt
\* under way uses one reconnect attempt and schedules one retry, after the
\* delay of that attempt, as an unclean close does; that is all the failed
\* attempt costs, so the close event of the timed-out socket uses no
\* further attempt and schedules no further retry, and when it finds the
\* attempts used up it notifies the failure once and clears the room.
C24_TimeoutIsOneFailure ==
    [][\A i \in 1..Len(socks) :
          /\ (/\ ConnectionTimeoutFires(i)
              /\ s.socket = i
              /\ socks[i].rs = "CONNECTING"
              /\ s.roomId # Null
              /\ s.reconnectAttempts < MAX_RECONNECT_ATTEMPTS)
             => /\ s'.reconnectAttempts = s.reconnectAttempts + 1
                /\ recon' = Append(recon, ReconnectDelay(s.reconnectAttempts + 1))
          /\ (SocketCloses(i, CLOSE_ABNORMAL) /\ TimedOut(i) /\ s.roomId # Null)
             => /\ s'.reconnectAttempts = s.reconnectAttempts
                /\ recon' = recon
                /\ s.reconnectAttempts >= MAX_RECONNECT_ATTEMPTS
                      => failed' = failed + 1 /\ RoomCleared(s')]_vars

\* How many requests of room-lifecycle operations are with the relay or
\* in the pending queue
LifecycleRequests(ss, wr) ==
    LET types == {"CREATE_ROOM", "JOIN_ROOM", "LEAVE_ROOM"}
    IN Cardinality({k \in 1..Len(wr) : wr[k].msg.type \in types})
       + Cardinality({k \in 1..Len(ss.pendingMessages) :
                         ss.pendingMessages[k].type \in types})

\* The room state of the session
RoomState(ss) == <<ss.roomId, ss.isHost, ss.userCount, ss.users>>

\* C25: a step that sends or queues a CREATE_ROOM, JOIN_ROOM or LEAVE_ROOM
\* request is the step of an operation that holds the lock, and a create,
\* join, auto-join or leave command that finds a fresh lock held is
\* rejected and leaves the room state as it was.
C25_LifecyclePassesLock ==
    [][/\ LifecycleRequests(s', wire') > LifecycleRequests(s, wire)
             => lock.type # Null \/ lock'.type # Null
       /\ ((LifecycleCommand \/ LeaveRoomCommand) /\ lock.type # Null /\ ~LockIsStale(lock))
             => ~resp'.success /\ RoomState(s') = RoomState(s)]_vars

\* C26: when the relay reads a CREATE_ROOM or JOIN_ROOM request after the
\* session has left a room for it, the relay has read the LEAVE_ROOM of
\* that room in between, unless the LEAVE_ROOM was lost in transit, with
\* the socket it was sent on.
C26_LeaveBeforeJoin ==
    \A p \in 1..Len(trail) :
       (trail[p].ev = "read" /\ trail[p].type \in {"CREATE_ROOM", "JOIN_ROOM"})
          => \A q \in 1..(p - 1) :
                trail[q].ev = "left"
                   => \E r \in (q + 1)..(p - 1) :
                         /\ trail[r].ev \in {"read", "lost"}
                         /\ trail[r].type = "LEAVE_ROOM"
                         /\ trail[r].roomId = trail[q].roomId
\* The relay messages that carry a member list
ListMessages ==
    { ServerMsg("ROOM_JOINED", r, LocalId, FALSE, us, Null, Null) :
         r \in Rooms, us \in UserLists }
    \cup UNION { MemberPushes(type) : type \in MemberTypes }

\* C27: once a relay message that carries a member list is handled, the
\* session's member list is the list of the message and, if the list has an
\* entry of the local participant, the session's host flag and control
\* permission are those of that entry.
C27_FlagsFollowList ==
    [][\A m \in ListMessages :
          Handled(m) =>
             /\ s'.users = m.users
             /\ HasUser(m.users, s'.oderId) =>
                   /\ s'.isHost = FindUser(m.users, s'.oderId).isHost
                   /\ s'.canControl = FindUser(m.users, s'.oderId).canControl]_vars

\* C28: a relay payload that does not parse, or whose handling fails on a
\* missing member, leaves the session's participant id, room id, host flag,
\* user count, member list and control permission and the room-operation
\* lock as they were.
C28_MalformedIsDropped ==
    [][/\ (\E i \in 1..Len(socks) : RelayPushesGarbage(i)) => s' = s /\ lock' = lock
       /\ \A m \in MalformedMsgs \ {ErrorMsg("ROOM_NOT_FOUND", Missing)} :
             (\E i \in 1..Len(socks) : RelayPushes(i, m)) =>
                /\ <<s'.oderId, s'.roomId, s'.isHost, s'.userCount>>
                      = <<s.oderId, s.roomId, s.isHost, s.userCount>>
                /\ s'.users = s.users
                /\ s'.canControl = s.canControl
                /\ lock' = lock]_vars

\* The kinds the claim calls durable, and the time-sensitive ones
DurableKinds == {"CREATE_ROOM", "JOIN_ROOM", "LEAVE_ROOM", "SYNC_EVENT", "NAVIGATE"}

TimeSensitiveKinds == {"HEARTBEAT", "STATE_RESPONSE"}

Queued(ss, kind) ==
    \E k \in 1..Len(ss.pendingMessages) : ss.pendingMessages[k].type = kind

\* sendMessage finds the channel down and queues what shouldQueueMessage lets pass
ChannelDown ==
    /\ ReadyState(World) # "OPEN"
    /\ s.isReconnecting \/ ~s.connected

\* C29 as stated: the pending queue holds room-lifecycle requests, SYNC_EVENT
\* and NAVIGATE messages only.
C29_OnlyDurableQueued ==
    \A k \in 1..Len(s.pendingMessages) : s.pendingMessages[k].type \in DurableKinds

\* C29, amended: the pending queue never holds a HEARTBEAT or a
\* STATE_RESPONSE, and a KICK_USER, SET_PERMISSION or GET_USERS request sent
\* while the channel is down is queued like the durable kinds.
C29_OnlyTimeSensitiveDiscarded ==
    /\ [](\A k \in 1..Len(s.pendingMessages) :
             s.pendingMessages[k].type \notin TimeSensitiveKinds)
    /\ [][/\ KickUserCommand /\ ChannelDown /\ s.roomId # Null /\ s.isHost
              => Queued(s', "KICK_USER")
          /\ (\E c \in BOOLEAN : SetPermissionCommand(c))
                /\ ChannelDown /\ s.roomId # Null /\ s.isHost
              => Queued(s', "SET_PERMISSION")
          /\ GetUsersCommand /\ ChannelDown /\ s.roomId # Null
              => Queued(s', "GET_USERS")]_vars

\* A request for the member list waits in the queue for the reconnect
C29_QueryQueued ==
    /\ Queued(s, "GET_USERS")
    /\ s.isReconnecting


SamplesOf(rawLatency) ==
    IF rawLatency < CLOCK_AHEAD_MS THEN <<rawLatency>>
    ELSE IF rawLatency > maxLatencyCompensation
    THEN <<rawLatency - BASELINE_LATENCY_MS>>
    ELSE <<>>

\* C31: the window of clock offset samples never holds more than 10 entries
\* and the window of latencies never more than 20; every call of
\* calculateLatency or compensateForLatency leaves in each window the last
\* entries of the window it found followed by its own observation, in that
\* order.
C31_WindowsKeepLatest ==
    /\ [](Len(ctl.clockOffsetSamples) <= 10)
    /\ [](Len(ctl.latencySamples) <= 20)
    /\ [][used'.cmds # used.cmds
            /\ call'.op \in {"calculateLatency", "compensateForLatency"}
          => LET rawLatency == DateNow - call'.eventTimestamp
                 latest == ctl'.latencySamples[Len(ctl'.latencySamples)]
             IN /\ ctl'.latencySamples # <<>>
                /\ call'.op = "calculateLatency" => latest = call'.result
                /\ ctl'.latencySamples
                      = LastOf(Append(ctl.latencySamples, latest), 20)
                /\ ctl'.clockOffsetSamples
                      = LastOf(ctl.clockOffsetSamples \o SamplesOf(rawLatency), 10)]_vars

\* Both windows are full and have lost their first entries
C31_BothWindowsFull ==
    /\ used.cmds > 20
    /\ Len(ctl.latencySamples) = 20
    /\ Len(ctl.clockOffsetSamples) = 10

\* C32: once a newer smooth seek has been started, neither the interval
\* nor the safety timeout of an older one moves the video, and when the
\* newest seek's duration and safety margin are over the video is at the
\* newest seek's target.
C32_NewSeekCancelsOld ==
    /\ [][\A k \in 1..Len(seeks) :
             k < Len(seeks) /\ (IntervalFires(k) \/ SafetyFires(k))
                => video'.currentTime = video.currentTime]_vars
    /\ [](Len(seeks) > 1 /\ seeks[Len(seeks)].timeout = NoTimer
            => video.currentTime = seeks[Len(seeks)].targetTime)

\* The latest call is an applySpeedAdjustment: no resetSpeed, destroy or
\* reset has been called and no reset timeout has fired since
Adjusting == call.op = "applySpeedAdjustment"

\* C33: while the latest call is an applySpeedAdjustment, the rate is reset
\* by the timeout when exactly 2s have passed since that call and not
\* before, no more than 2s pass without it, and the reset gives the video
\* the rate it had before the first adjustment of the episode.
C33_ResetTwoSecondsAfterLatest ==
    /\ [][SpeedResetFires =>
             /\ Adjusting
             /\ now - call.at = 2000
             /\ video'.playbackRate = call.before
             /\ ~ctl'.isAdjustingSpeed]_vars
    /\ [](Adjusting => now - call.at <= 2000)

\* The timeout has reset the rate 2s after the second of two adjustments
\* that were 1s apart
C33_SecondAdjustmentSupersedes ==
    /\ call.op = "speedResetTimeout"
    /\ call.adjustments = 2
    /\ now = 3000
    /\ video.playbackRate = RateOne

\* C34: the promise of every smooth seek is resolved in the end, whatever
\* other seeks, destroy() or reset() are called while it runs.
C34_EverySeekResolves ==
    \A k \in 1..MaxSeekCalls :
       [](Len(seeks) >= k => <>(Len(seeks) >= k /\ seeks[k].resolved))

\* C35: the session is connected only while it holds a socket and that
\* socket is open, and the close event of a socket that is not the
\* session's socket leaves the session's socket and its connected flag alone.
C35_ConnectedMeansOpenSocket ==
    /\ [](s.connected => s.socket # NoSocket /\ socks[s.socket].rs = "OPEN")
    /\ [][\A i \in 1..Len(socks), code \in {CLOSE_NORMAL, CLOSE_ABNORMAL} :
             SocketCloses(i, code) /\ s.socket # i
                => s'.socket = s.socket /\ s'.connected = s.connected]_vars

\* C36: when the connect timeout of a create or join, or the last poll of
\* an auto-join, runs while the lock is held by another operation than its
\* own, the lock stays as it is.
C36_TimeoutReleasesOwnLockOnly ==
    [][\A k \in 1..Len(ops) :
          OperationTimeoutFires(k) /\ lock.type # Null /\ lock.seq # ops[k].seq
             => lock' = lock]_vars

\* The ROOM_CREATED answers of the relay
RoomCreatedMsgs ==
    { ServerMsg("ROOM_CREATED", r, LocalId, TRUE, <<>>, Null, Null) : r \in Rooms }

\* C37: once ROOM_CREATED is handled the client is the host and has control
\* permission, whatever its permission was before, so the PLAYER_EVENT
\* test of the permission lets the creator's events pass.
C37_CreatorHasControl ==
    [][\A m \in RoomCreatedMsgs :
          Handled(m) => s'.isHost /\ s'.canControl]_vars

\* The connect attempts that have timed out and whose close event is still
\* to come: counted as failed by the timeout, not yet by a close
TimedOutSockets == { i \in 1..Len(socks) : TimedOut(i) }

\* C38: at most one reconnect timer is pending at any time, and the attempt
\* counter never counts more than the connection attempts that have failed
\* since a socket last opened: one for each unclean close in the room, and
\* one for a timed-out attempt whose close event is still to come.
C38_OneTimerOneCount ==
    /\ [](Len(recon) <= 1)
    /\ [](s.reconnectAttempts <= closes + Cardinality(TimedOutSockets))

\* The messages that report what happens in a room to its other members
RoomEventKinds == {"SYNC_EVENT", "NAVIGATE"}

\* C40: what the open event of a socket transmits from the pending queue is
\* about the room the client is in at that moment: every SYNC_EVENT and
\* NAVIGATE put on the wire by the flush names the current room, so none
\* that was queued for a room since cleared is sent.
C40_FlushIsForCurrentRoom ==
    [][\A i \in 1..Len(socks) :
          SocketOpens(i)
             => \A k \in (Len(wire) + 1)..Len(wire') :
                   wire'[k].msg.type \in RoomEventKinds
                      => wire'[k].msg.roomId = s'.roomId]_vars

\* A call of applySyncEvent is under way: it awaits its smooth seek
Applying == script.awaiting # {}

\* C39: the content script reports no position change that it made itself
\* for a remote event, and the applying-sync flag is set for as long as a
\* call of applySyncEvent awaits its smooth seek.  The viewer never seeks
\* here, so every PLAYER_EVENT sent would be such a report.
C39_NoEchoOfRemoteSeek ==
    /\ [](script.sent = <<>>)
    /\ [](Applying => script.isApplyingSync)

====
